---- MODULE Spec2Model ----
(***************************************************************************)
(* A model of the Picol interpreter of src/src/picol.rs driven by the      *)
(* main function of src/src/main.rs.                                       *)
(*                                                                         *)
(* Texts (Rust String) are sequences of one-character strings.  Rust       *)
(* positions are 0-based: the character at position pos of s is s[pos+1].  *)
(* A String is UTF-8: its length and the bounds of a slice count bytes,     *)
(* chars().nth counts characters.                                          *)
(* A Rust panic (unwrap of None, slice out of range, arithmetic overflow)  *)
(* aborts the process; it is recorded in the field "panicked" of the       *)
(* parser and in the variable "panicked" of the interpreter.               *)
(***************************************************************************)
EXTENDS Integers, Sequences, FiniteSets, TLC

(***************************************************************************)
(* Character classes                                                       *)
(***************************************************************************)
Digits == <<"0", "1", "2", "3", "4", "5", "6", "7", "8", "9">>

DigitChars == {Digits[i] : i \in 1..10}

AsciiLetters ==
    {"a", "b", "c", "d", "e", "f", "g", "h", "i", "j", "k", "l", "m",
     "n", "o", "p", "q", "r", "s", "t", "u", "v", "w", "x", "y", "z",
     "A", "B", "C", "D", "E", "F", "G", "H", "I", "J", "K", "L", "M",
     "N", "O", "P", "Q", "R", "S", "T", "U", "V", "W", "X", "Y", "Z"}

\* Texts are UTF-8.  Beyond ASCII the model holds the characters U+00A1 to
\* U+00FF, three Greek letters, the euro sign, and the white space characters
\* named here; every other character of a text is an ASCII character.
\* U+000B, the vertical tab
VT == ""

\* U+0085, next line
NEL == ""

\* U+00A0, the no-break space
NBSP == " "

\* U+1680, the ogham space mark
OghamSpace == " "

\* the alphabetic characters of U+00A1 to U+00FF
Latin1Letters ==
    {     "ª", "µ", "º", "À", "Á", "Â", "Ã", "Ä", "Å", "Æ", "Ç", "È", "É",
     "Ê", "Ë", "Ì", "Í", "Î", "Ï", "Ð", "Ñ", "Ò", "Ó", "Ô", "Õ", "Ö",
     "Ø", "Ù", "Ú", "Û", "Ü", "Ý", "Þ", "ß", "à", "á", "â", "ã", "ä",
     "å", "æ", "ç", "è", "é", "ê", "ë", "ì", "í", "î", "ï", "ð", "ñ",
     "ò", "ó", "ô", "õ", "ö", "ø", "ù", "ú", "û", "ü", "ý", "þ", "ÿ"}

GreekLetters == {"π", "λ", "Ω"}

\* the numeric characters of U+00A1 to U+00FF, none of them a decimal digit
Latin1Numbers == {"²", "³", "¹", "¼", "½", "¾"}

\* the characters of U+00A1 to U+00FF that are neither alphabetic nor numeric
Latin1Signs ==
    {     "¡", "¢", "£", "¤", "¥", "¦", "§", "¨", "©", "«", "¬", "­", "®",
     "¯", "°", "±", "´", "¶", "·", "¸", "»", "¿", "×", "÷"}

\* the characters for which char::is_alphabetic holds
AlphabeticChars == AsciiLetters \cup Latin1Letters \cup GreekLetters

\* the characters for which char::is_numeric holds
NumericChars == DigitChars \cup Latin1Numbers

\* char::is_alphanumeric
is_alphanumeric(c) == c \in AlphabeticChars \cup NumericChars

\* the characters for which char::is_whitespace holds
WhiteSpaceChars == {" ", "\t", "\n", VT, "\f", "\r", NEL, NBSP, OghamSpace}

\* the characters encoded on two bytes, and on three
TwoByteChars ==
    Latin1Letters \cup Latin1Numbers \cup Latin1Signs \cup GreekLetters \cup {NEL, NBSP}

ThreeByteChars == {"€", OghamSpace}

\* char::len_utf8
len_utf8(c) ==
    IF c \in ThreeByteChars THEN 3 ELSE IF c \in TwoByteChars THEN 2 ELSE 1

\* the bytes the characters s[i], i \in chars, take beyond one each
ExtraBytes(s, chars) ==
    Cardinality({i \in chars : s[i] \in TwoByteChars})
        + 2 * Cardinality({i \in chars : s[i] \in ThreeByteChars})

\* the byte offset of the character at position k of s (of the end of s when
\* k = Len(s))
byte_offset(s, k) == k + ExtraBytes(s, 1..k)

\* str::len, String::len: the length in bytes
str_len(s) == byte_offset(s, Len(s))

\* the positions a character at byte offset b of s can have: at most b, and
\* at least b less the bytes that the characters of s take beyond one each
PositionsAt(s, b) ==
    LET lo == b - ExtraBytes(s, DOMAIN s)
        hi == IF b < Len(s) THEN b ELSE Len(s)
    IN  (IF lo < 0 THEN 0 ELSE lo)..hi

\* str::is_char_boundary
is_char_boundary(s, b) == \E k \in PositionsAt(s, b) : byte_offset(s, k) = b

\* the position of the character at byte offset b of s, a char boundary
char_position(s, b) == CHOOSE k \in PositionsAt(s, b) : byte_offset(s, k) = b

\* the characters U+0020 to U+005F, U+0061 to U+007E and U+00A0 to U+00FF, in
\* the order of their code points
AsciiLow ==
    <<" ", "!", "\"", "#", "$", "%", "&", "'", "(", ")", "*", "+", ",",
      "-", ".", "/", "0", "1", "2", "3", "4", "5", "6", "7", "8", "9", ":",
      ";", "<", "=", ">", "?", "@", "A", "B", "C", "D", "E", "F", "G", "H",
      "I", "J", "K", "L", "M", "N", "O", "P", "Q", "R", "S", "T", "U", "V",
      "W", "X", "Y", "Z", "[", "\\", "]", "^", "_">>

AsciiHigh ==
    <<"a", "b", "c", "d", "e", "f", "g", "h", "i", "j", "k", "l", "m", "n",
      "o", "p", "q", "r", "s", "t", "u", "v", "w", "x", "y", "z", "{", "|",
      "}", "~">>

Latin1High ==
    <<NBSP, "¡", "¢", "£", "¤", "¥", "¦", "§", "¨", "©", "ª", "«", "¬",
      "­", "®", "¯", "°", "±", "²", "³", "´", "µ", "¶", "·", "¸", "¹", "º",
      "»", "¼", "½", "¾", "¿", "À", "Á", "Â", "Ã", "Ä", "Å", "Æ", "Ç", "È",
      "É", "Ê", "Ë", "Ì", "Í", "Î", "Ï", "Ð", "Ñ", "Ò", "Ó", "Ô", "Õ", "Ö",
      "×", "Ø", "Ù", "Ú", "Û", "Ü", "Ý", "Þ", "ß", "à", "á", "â", "ã", "ä",
      "å", "æ", "ç", "è", "é", "ê", "ë", "ì", "í", "î", "ï", "ð", "ñ", "ò",
      "ó", "ô", "õ", "ö", "÷", "ø", "ù", "ú", "û", "ü", "ý", "þ", "ÿ">>

IndexOf(seq, c) == CHOOSE i \in DOMAIN seq : seq[i] = c

\* char as u32, for the characters of the model
CodePoints ==
    [c \in {AsciiLow[i] : i \in DOMAIN AsciiLow} |-> 31 + IndexOf(AsciiLow, c)]
    @@ [c \in {AsciiHigh[i] : i \in DOMAIN AsciiHigh} |-> 96 + IndexOf(AsciiHigh, c)]
    @@ [c \in {Latin1High[i] : i \in DOMAIN Latin1High} |->
            159 + IndexOf(Latin1High, c)]
    @@ ("\t" :> 9 @@ "\n" :> 10 @@ VT :> 11 @@ "\f" :> 12 @@ "\r" :> 13
        @@ NEL :> 133 @@ "Ω" :> 937 @@ "λ" :> 955 @@ "π" :> 960
        @@ OghamSpace :> 5760 @@ "€" :> 8364)

code_point(c) == CodePoints[c]

\* char::encode_utf8: the bytes of a character, each a number under 256
encode_utf8(c) ==
    LET n == code_point(c) IN
    IF n < 128 THEN <<n>>
    ELSE IF n < 2048 THEN <<192 + (n \div 64), 128 + (n % 64)>>
    ELSE <<224 + (n \div 4096), 128 + ((n \div 64) % 64), 128 + (n % 64)>>

\* str::as_bytes: the bytes of a text
as_bytes(s) ==
    IF s = <<>> THEN <<>>
    ELSE [b \in 1..str_len(s) |->
            LET k == CHOOSE j \in DOMAIN s :
                         byte_offset(s, j - 1) < b /\ b <= byte_offset(s, j)
            IN  encode_utf8(s[k])[b - byte_offset(s, k - 1)]]

SepChars == {" ", "\t", "\n", "\r"}

EolChars == {" ", "\t", "\n", "\r", ";"}

(***************************************************************************)
(* PicolParser                                                             *)
(***************************************************************************)
PicolParser_new(s) ==
    [string |-> s, pos |-> 0, len |-> str_len(s), start |-> 0, end |-> 0,
     typ |-> "PTEol", inside_quotes |-> FALSE, panicked |-> FALSE]

Panicked(p) == [p EXCEPT !.panicked = TRUE]

\* self.string.chars().nth(self.pos) is Some(_)
HasChar(p) == p.pos < Len(p.string)

\* self.string.chars().nth(self.pos).unwrap(), where HasChar(p)
chars_nth(p) == p.string[p.pos + 1]

\* self.pos += 1; self.len -= 1;  (len is a usize: 0 - 1 overflows)
Advance(p) ==
    IF p.panicked \/ p.len = 0 THEN Panicked(p)
    ELSE [p EXCEPT !.pos = @ + 1, !.len = @ - 1]

\* self.end = self.pos-1; self.typ = typ;  (pos is a usize: 0 - 1 overflows)
EndToken(p, typ) ==
    IF p.panicked \/ p.pos = 0 THEN Panicked(p)
    ELSE [p EXCEPT !.end = p.pos - 1, !.typ = typ]

\* The state of a loop is a record with the parser p, the local variables of
\* the loop, and done, TRUE once the loop is left by break or return.
Exit(s) == [s EXCEPT !.done = TRUE]

Abort(s) == [s EXCEPT !.p = Panicked(s.p), !.done = TRUE]

\* one iteration of the while loop of parse_sep
parse_sep_body(s) ==
    LET p == s.p IN
    IF p.pos < p.len
    THEN IF ~HasChar(p) THEN Abort(s)
         ELSE IF chars_nth(p) \in SepChars THEN [s EXCEPT !.p = Advance(p)]
         ELSE Exit(s)
    ELSE Exit(s)

\* one iteration of the while loop of parse_eol
parse_eol_body(s) ==
    LET p == s.p IN
    IF p.pos < p.len
    THEN IF ~HasChar(p) THEN Abort(s)
         ELSE IF chars_nth(p) \in EolChars THEN [s EXCEPT !.p = Advance(p)]
         ELSE Exit(s)
    ELSE Exit(s)

\* one iteration of the loop of parse_command
parse_command_body(s) ==
    LET p == s.p IN
    IF p.panicked \/ p.len = 0 THEN Exit(s)
    ELSE IF ~HasChar(p) THEN Abort(s)
    ELSE LET c == chars_nth(p) IN
         IF c = "[" /\ s.blevel = 0
         THEN [s EXCEPT !.p = Advance(p), !.level = @ + 1]
         ELSE IF c = "]" /\ s.blevel = 0
         THEN IF s.level - 1 = 0 THEN Exit(s)
              ELSE [s EXCEPT !.p = Advance(p), !.level = @ - 1]
         ELSE IF c = "{"
         THEN [s EXCEPT !.p = Advance(p), !.blevel = @ + 1]
         ELSE IF c = "}"
         THEN [s EXCEPT !.p = Advance(p), !.blevel = @ - 1]
         ELSE IF c = "\\"
         THEN [s EXCEPT !.p = Advance(Advance(p))]
         ELSE [s EXCEPT !.p = Advance(p)]

\* one iteration of the loop of parse_var
parse_var_body(s) ==
    LET p == s.p IN
    IF p.panicked \/ ~HasChar(p) THEN Abort(s)
    ELSE IF is_alphanumeric(chars_nth(p)) \/ chars_nth(p) = "_"
    THEN [s EXCEPT !.p = Advance(p)]
    ELSE Exit(s)

\* one iteration of the loop of parse_brace
parse_brace_body(s) ==
    LET p == s.p IN
    IF p.panicked \/ ~HasChar(p) THEN Abort(s)
    ELSE LET c == chars_nth(p) IN
         IF p.len >= 2 /\ c = "\\"
         THEN [s EXCEPT !.p = Advance(Advance(p))]
         ELSE IF p.len = 0 \/ c = "}"
         THEN IF s.level - 1 = 0 \/ p.len = 0
              THEN LET q == EndToken(p, "PTStr") IN
                   IF q.panicked THEN Abort(s)
                   ELSE IF q.len > 0
                   THEN [s EXCEPT !.p = [Advance(q) EXCEPT !.typ = "PTStr"],
                                  !.done = TRUE]
                   ELSE [s EXCEPT !.p = q, !.done = TRUE]
              ELSE [s EXCEPT !.p = Advance(p), !.level = @ - 1]
         ELSE IF c = "{"
         THEN [s EXCEPT !.p = Advance(p), !.level = @ + 1]
         ELSE [s EXCEPT !.p = Advance(p)]

\* one iteration of the loop of parse_string
parse_string_body(s) ==
    LET p == s.p IN
    IF p.panicked THEN Exit(s)
    ELSE IF p.len = 0 THEN [s EXCEPT !.p = EndToken(p, "PTEsc"), !.done = TRUE]
    ELSE IF ~HasChar(p) THEN Abort(s)
    ELSE LET c == chars_nth(p) IN
         IF c = "\\"
         THEN IF p.len >= 2 THEN [s EXCEPT !.p = Advance(Advance(p))]
              ELSE [s EXCEPT !.p = Advance(p)]
         ELSE IF c = "$" \/ c = "["
         THEN [s EXCEPT !.p = EndToken(p, "PTEsc"), !.done = TRUE]
         ELSE IF c \in EolChars
         THEN IF ~p.inside_quotes
              THEN [s EXCEPT !.p = EndToken(p, "PTEsc"), !.done = TRUE]
              ELSE [s EXCEPT !.p = Advance(p)]
         ELSE IF c = "\""
         THEN IF p.inside_quotes
              THEN LET q == Advance(EndToken(p, "PTEsc")) IN
                   IF q.panicked THEN Abort(s)
                   ELSE [s EXCEPT !.p = [q EXCEPT !.inside_quotes = FALSE],
                                  !.done = TRUE]
              ELSE [s EXCEPT !.p = Advance(p)]
         ELSE [s EXCEPT !.p = Advance(p)]

\* The loop of a method run from the state s, where at most n iterations are
\* needed, is its first n \div 2 iterations followed by the rest; an iteration
\* that does not leave the loop advances pos or panics, so Iterations(p) are
\* enough on the text of p.
Iterations(p) == Len(p.string) + 2

RECURSIVE parse_sep_loop(_, _)
parse_sep_loop(s, n) ==
    IF s.done \/ n = 0 THEN s
    ELSE IF n = 1 THEN parse_sep_body(s)
    ELSE parse_sep_loop(parse_sep_loop(s, n \div 2), n - n \div 2)

RECURSIVE parse_eol_loop(_, _)
parse_eol_loop(s, n) ==
    IF s.done \/ n = 0 THEN s
    ELSE IF n = 1 THEN parse_eol_body(s)
    ELSE parse_eol_loop(parse_eol_loop(s, n \div 2), n - n \div 2)

RECURSIVE parse_command_loop(_, _)
parse_command_loop(s, n) ==
    IF s.done \/ n = 0 THEN s
    ELSE IF n = 1 THEN parse_command_body(s)
    ELSE parse_command_loop(parse_command_loop(s, n \div 2), n - n \div 2)

RECURSIVE parse_var_loop(_, _)
parse_var_loop(s, n) ==
    IF s.done \/ n = 0 THEN s
    ELSE IF n = 1 THEN parse_var_body(s)
    ELSE parse_var_loop(parse_var_loop(s, n \div 2), n - n \div 2)

RECURSIVE parse_brace_loop(_, _)
parse_brace_loop(s, n) ==
    IF s.done \/ n = 0 THEN s
    ELSE IF n = 1 THEN parse_brace_body(s)
    ELSE parse_brace_loop(parse_brace_loop(s, n \div 2), n - n \div 2)

RECURSIVE parse_string_loop(_, _)
parse_string_loop(s, n) ==
    IF s.done \/ n = 0 THEN s
    ELSE IF n = 1 THEN parse_string_body(s)
    ELSE parse_string_loop(parse_string_loop(s, n \div 2), n - n \div 2)

parse_sep(p) ==
    LET s == [p |-> [p EXCEPT !.start = p.pos], done |-> FALSE]
    IN  EndToken(parse_sep_loop(s, Iterations(p)).p, "PTSep")

parse_eol(p) ==
    LET s == [p |-> [p EXCEPT !.start = p.pos], done |-> FALSE]
    IN  EndToken(parse_eol_loop(s, Iterations(p)).p, "PTEol")

parse_command(p) ==
    LET p0 == Advance(p)
        p1 == IF p0.panicked THEN p0 ELSE [p0 EXCEPT !.start = p0.pos]
        s == [p |-> p1, level |-> 1, blevel |-> 0, done |-> FALSE]
        p2 == EndToken(parse_command_loop(s, Iterations(p)).p, "PTCmd")
    IN  IF p2.panicked THEN p2
        ELSE IF ~HasChar(p2) THEN Panicked(p2)
        ELSE IF chars_nth(p2) = "]" THEN Advance(p2)
        ELSE p2

parse_var(p) ==
    LET p0 == Advance(p)
        p1 == IF p0.panicked THEN p0 ELSE [p0 EXCEPT !.start = p0.pos]
        p2 == parse_var_loop([p |-> p1, done |-> FALSE], Iterations(p)).p
    IN  IF p2.panicked THEN p2
        ELSE IF p2.start = p2.pos
        THEN IF p2.pos = 0 THEN Panicked(p2)
             ELSE [p2 EXCEPT !.start = p2.pos - 1, !.end = p2.pos - 1,
                             !.typ = "PTStr"]
        ELSE EndToken(p2, "PTVar")

parse_brace(p) ==
    LET p0 == Advance(p)
        p1 == IF p0.panicked THEN p0 ELSE [p0 EXCEPT !.start = p0.pos]
        s == [p |-> p1, level |-> 1, done |-> FALSE]
    IN  parse_brace_loop(s, Iterations(p)).p

parse_string(p) ==
    LET is_new_word == p.typ \in {"PTEol", "PTSep", "PTStr"} IN
    IF is_new_word /\ ~HasChar(p) THEN Panicked(p)
    ELSE IF is_new_word /\ chars_nth(p) = "{" THEN parse_brace(p)
    ELSE LET p0 == IF is_new_word /\ chars_nth(p) = "\""
                   THEN [Advance(p) EXCEPT !.inside_quotes = TRUE]
                   ELSE p
             s == [p |-> [p0 EXCEPT !.start = p0.pos], done |-> FALSE]
         IN  parse_string_loop(s, Iterations(p)).p

\* The loop of parse_comment stops at the first position k from pos on where
\* len has reached 0, or the text has no character (the unwrap panics), or the
\* character is a newline.
parse_comment(p) ==
    LET last == p.pos + p.len
        Stops(k) == k = last \/ k >= Len(p.string) \/ p.string[k + 1] = "\n"
        stop == CHOOSE k \in p.pos..last :
                    Stops(k) /\ \A j \in p.pos..(k - 1) : ~Stops(j)
    IN  IF stop < last /\ stop >= Len(p.string) THEN Panicked(p)
        ELSE [p EXCEPT !.pos = stop, !.len = last - stop]

RECURSIVE get_token(_)
get_token(p) ==
    IF p.panicked THEN p
    ELSE IF p.len = 0
    THEN IF p.typ # "PTEol" /\ p.typ # "PTEof"
         THEN [p EXCEPT !.typ = "PTEol"]
         ELSE [p EXCEPT !.typ = "PTEof"]
    ELSE IF ~HasChar(p) THEN Panicked(p)
    ELSE LET c == chars_nth(p) IN
         IF c = " " \/ c = "\t" \/ c = "\r"
         THEN IF p.inside_quotes THEN parse_string(p) ELSE parse_sep(p)
         ELSE IF c = "\n" \/ c = ";"
         THEN IF p.inside_quotes THEN parse_string(p) ELSE parse_eol(p)
         ELSE IF c = "["
         THEN parse_command(p)
         ELSE IF c = "$"
         THEN parse_var(p)
         ELSE IF c = "#"
         THEN IF p.typ = "PTEol" THEN get_token(parse_comment(p))
              ELSE parse_string(p)
         ELSE parse_string(p)

(***************************************************************************)
(* Text literals of the source                                             *)
(***************************************************************************)
S_plus == <<"+">>
S_minus == <<"-">>
S_times == <<"*">>
S_div == <<"/">>
S_gt == <<">">>
S_lt == <<"<">>
S_ge == <<">", "=">>
S_le == <<"<", "=">>
S_eq == <<"=", "=">>
S_ne == <<"!", "=">>
S_set == <<"s", "e", "t">>
S_puts == <<"p", "u", "t", "s">>
S_if == <<"i", "f">>
S_while == <<"w", "h", "i", "l", "e">>
S_break == <<"b", "r", "e", "a", "k">>
S_continue == <<"c", "o", "n", "t", "i", "n", "u", "e">>
S_proc == <<"p", "r", "o", "c">>
S_return == <<"r", "e", "t", "u", "r", "n">>
S_one == <<"1">>

MsgUnknownVariable ==
    <<"U", "n", "k", "n", "o", "w", "n", " ", "v", "a", "r", "i", "a", "b", "l", "e", " ">>

MsgUnknownCommand ==
    <<"U", "n", "k", "n", "o", "w", "n", " ", "c", "o", "m", "m", "a", "n", "d", " ">>

MsgWrongArgs ==
    <<"W", "r", "o", "n", "g", " ", "n", "u", "m", "b", "e", "r", " ", "o", "f", " ", "a", "r", "g", "u", "m", "e", "n", "t", "s", " ", "f", "o", "r", " ">>

MsgDivisionByZero ==
    <<"D", "i", "v", "i", "s", "i", "o", "n", " ", "b", "y", " ", "z", "e", "r", "o">>

MsgCommand == <<"C", "o", "m", "m", "a", "n", "d", " ">>

MsgAlreadyExists ==
    <<" ", "a", "l", "r", "e", "a", "d", "y", " ", "e", "x", "i", "s", "t", "s">>

\* format!("{:?}", retcode) of main
StatusText(st) ==
    CASE st = "PicolOk" -> <<"P", "i", "c", "o", "l", "O", "k">>
      [] st = "PicolErr" -> <<"P", "i", "c", "o", "l", "E", "r", "r">>
      [] st = "PicolReturn" -> <<"P", "i", "c", "o", "l", "R", "e", "t", "u", "r", "n">>
      [] st = "PicolBreak" -> <<"P", "i", "c", "o", "l", "B", "r", "e", "a", "k">>
      [] st = "PicolContinue" -> <<"P", "i", "c", "o", "l", "C", "o", "n", "t", "i", "n", "u", "e">>

PicolResult == {"PicolOk", "PicolErr", "PicolReturn", "PicolBreak", "PicolContinue"}

(***************************************************************************)
(* i32 arithmetic and its text conversions                                 *)
(***************************************************************************)
I32Max == 2147483647

I32Min == (-2147483647) - 1

DigitVal(c) == CHOOSE d \in 0..9 : Digits[d + 1] = c

\* accumulate decimal digits the way i32::from_str does: towards +inf for a
\* positive number, towards -inf for a negative one, failing on overflow
RECURSIVE parse_digits(_, _, _)
parse_digits(ds, acc, neg) ==
    IF ds = <<>> THEN [ok |-> TRUE, val |-> acc]
    ELSE LET d == DigitVal(Head(ds)) IN
         IF ~neg
         THEN IF acc < 214748364 \/ (acc = 214748364 /\ d <= 7)
              THEN parse_digits(Tail(ds), acc * 10 + d, neg)
              ELSE [ok |-> FALSE, val |-> 0]
         ELSE IF acc > -214748364 \/ (acc = -214748364 /\ d <= 8)
              THEN parse_digits(Tail(ds), acc * 10 - d, neg)
              ELSE [ok |-> FALSE, val |-> 0]

\* str::parse::<i32>(): ok is FALSE where the code's unwrap() panics
parse_i32(s) ==
    LET signed == s # <<>> /\ Head(s) \in {"+", "-"}
        neg == s # <<>> /\ Head(s) = "-"
        ds == IF signed THEN Tail(s) ELSE s
    IN  IF ds # <<>> /\ \A k \in 1..Len(ds) : ds[k] \in DigitChars
        THEN parse_digits(ds, 0, neg)
        ELSE [ok |-> FALSE, val |-> 0]

RECURSIVE nat_to_string(_)
nat_to_string(n) ==
    IF n < 10 THEN <<Digits[n + 1]>>
    ELSE nat_to_string(n \div 10) \o <<Digits[(n % 10) + 1]>>

\* i32::to_string()
to_string(n) ==
    IF n = I32Min
    THEN <<"-", "2", "1", "4", "7", "4", "8", "3", "6", "4", "8">>
    ELSE IF n < 0 THEN <<"-">> \o nat_to_string(-n)
    ELSE nat_to_string(n)

add_overflows(a, b) ==
    (b > 0 /\ a > I32Max - b) \/ (b < 0 /\ a < I32Min - b)

wrapping_add(a, b) ==
    IF b > 0 /\ a > I32Max - b THEN ((a - I32Max) - 1) + ((b - I32Max) - 1)
    ELSE IF b < 0 /\ a < I32Min - b THEN ((a + I32Max) + 1) + ((b + I32Max) + 1)
    ELSE a + b

sub_overflows(a, b) ==
    (b < 0 /\ a > I32Max + b) \/ (b > 0 /\ a < I32Min + b)

wrapping_sub(a, b) ==
    IF b < 0 /\ a > I32Max + b THEN ((a - I32Max) - 1) - ((b + I32Max) + 1)
    ELSE IF b > 0 /\ a < I32Min + b THEN ((a + I32Max) + 1) - ((b - I32Max) - 1)
    ELSE a - b

wrapping_neg(a) == IF a = I32Min THEN I32Min ELSE -a

Abs32(a) == IF a < 0 THEN -a ELSE a

\* floor(2^31 / m) for 2 <= m <= I32Max
Pow31Div(m) == (I32Max \div m) + (IF I32Max % m = m - 1 THEN 1 ELSE 0)

mul_overflows(a, b) ==
    IF a = 0 \/ b = 0 THEN FALSE
    ELSE IF a = I32Min THEN b # 1
    ELSE IF b = I32Min THEN a # 1
    ELSE IF (a < 0) = (b < 0) THEN Abs32(a) > I32Max \div Abs32(b)
    ELSE IF Abs32(b) = 1 THEN FALSE
    ELSE Abs32(a) > Pow31Div(Abs32(b))

RECURSIVE wrapping_mul(_, _)
wrapping_mul(a, b) ==
    IF b = 0 THEN 0
    ELSE IF b = I32Min THEN (IF a % 2 = 0 THEN 0 ELSE I32Min)
    ELSE IF b < 0 THEN wrapping_neg(wrapping_mul(a, -b))
    ELSE LET h == wrapping_mul(wrapping_add(a, a), b \div 2) IN
         IF b % 2 = 1 THEN wrapping_add(h, a) ELSE h

\* a / b of i32 (truncation toward zero), for b # 0 and not (a = MIN, b = -1)
truncating_div(a, b) ==
    IF a = I32Min
    THEN IF b = I32Min THEN 1
         ELSE IF b = 1 THEN I32Min
         ELSE IF b > 0 THEN -Pow31Div(b)
         ELSE Pow31Div(-b)
    ELSE IF b = I32Min THEN 0
    ELSE IF (a < 0) = (b < 0) THEN Abs32(a) \div Abs32(b)
    ELSE -(Abs32(a) \div Abs32(b))

\* the match of picol_cmd_math without the test of b == 0: the division by
\* zero panics
math_result_unchecked(op, a, b) ==
    IF op = S_plus
    THEN [kind |-> IF add_overflows(a, b) THEN "overflow" ELSE "value",
          val |-> wrapping_add(a, b)]
    ELSE IF op = S_minus
    THEN [kind |-> IF sub_overflows(a, b) THEN "overflow" ELSE "value",
          val |-> wrapping_sub(a, b)]
    ELSE IF op = S_times
    THEN [kind |-> IF mul_overflows(a, b) THEN "overflow" ELSE "value",
          val |-> wrapping_mul(a, b)]
    ELSE IF op = S_div
    THEN IF b = 0 \/ (a = I32Min /\ b = -1) THEN [kind |-> "panic", val |-> 0]
         ELSE [kind |-> "value", val |-> truncating_div(a, b)]
    ELSE IF op = S_gt THEN [kind |-> "value", val |-> IF a > b THEN 1 ELSE 0]
    ELSE IF op = S_lt THEN [kind |-> "value", val |-> IF a < b THEN 1 ELSE 0]
    ELSE IF op = S_ge THEN [kind |-> "value", val |-> IF a >= b THEN 1 ELSE 0]
    ELSE IF op = S_le THEN [kind |-> "value", val |-> IF a <= b THEN 1 ELSE 0]
    ELSE IF op = S_eq THEN [kind |-> "value", val |-> IF a = b THEN 1 ELSE 0]
    ELSE IF op = S_ne THEN [kind |-> "value", val |-> IF a # b THEN 1 ELSE 0]
    ELSE [kind |-> "value", val |-> 0]

\* The match of picol_cmd_math on two parsed operands.  kind is "value",
\* "overflow" (+, -, * out of the i32 range: a panic in a build with overflow
\* checks, the wrapped value val otherwise), "panic" (i32::MIN / -1) or
\* "divzero".
math_result(op, a, b) ==
    IF op = S_plus
    THEN [kind |-> IF add_overflows(a, b) THEN "overflow" ELSE "value",
          val |-> wrapping_add(a, b)]
    ELSE IF op = S_minus
    THEN [kind |-> IF sub_overflows(a, b) THEN "overflow" ELSE "value",
          val |-> wrapping_sub(a, b)]
    ELSE IF op = S_times
    THEN [kind |-> IF mul_overflows(a, b) THEN "overflow" ELSE "value",
          val |-> wrapping_mul(a, b)]
    ELSE IF op = S_div
    THEN IF b = 0 THEN [kind |-> "divzero", val |-> 0]
         ELSE IF a = I32Min /\ b = -1 THEN [kind |-> "panic", val |-> 0]
         ELSE [kind |-> "value", val |-> truncating_div(a, b)]
    ELSE IF op = S_gt THEN [kind |-> "value", val |-> IF a > b THEN 1 ELSE 0]
    ELSE IF op = S_lt THEN [kind |-> "value", val |-> IF a < b THEN 1 ELSE 0]
    ELSE IF op = S_ge THEN [kind |-> "value", val |-> IF a >= b THEN 1 ELSE 0]
    ELSE IF op = S_le THEN [kind |-> "value", val |-> IF a <= b THEN 1 ELSE 0]
    ELSE IF op = S_eq THEN [kind |-> "value", val |-> IF a = b THEN 1 ELSE 0]
    ELSE IF op = S_ne THEN [kind |-> "value", val |-> IF a # b THEN 1 ELSE 0]
    ELSE [kind |-> "value", val |-> 0]

\* str::split_whitespace(): the words of s from its character k on, after
\* the characters cur of a word already begun
RECURSIVE split_whitespace_from(_, _, _)
split_whitespace_from(s, k, cur) ==
    IF k > Len(s) THEN (IF cur = <<>> THEN <<>> ELSE <<cur>>)
    ELSE IF s[k] \in WhiteSpaceChars
    THEN (IF cur = <<>> THEN <<>> ELSE <<cur>>) \o split_whitespace_from(s, k + 1, <<>>)
    ELSE split_whitespace_from(s, k + 1, Append(cur, s[k]))

split_whitespace(s) == split_whitespace_from(s, 1, <<>>)

(***************************************************************************)
(* PicolInterpreter: command registry and call frames                      *)
(***************************************************************************)
\* commands is the list headed by commands_head, head first; the result is
\* the position of the first entry named name, 0 for None
\* get_command walks the list from its head and returns the first command of
\* that name: its position in cmds, 0 for None
get_command(cmds, name) ==
    LET found == {k \in 1..Len(cmds) : cmds[k].name = name} IN
    IF found = {} THEN 0
    ELSE CHOOSE k \in found : \A j \in found : k <= j

PicolCmd_new(name, command_func, private_data) ==
    [name |-> name, command_func |-> command_func, private_data |-> private_data]

\* register_command without the test for an existing command: the new entry
\* shadows the old one
register_command_shadowing(cmds, name, command_func, private_data) ==
    [commands |-> <<PicolCmd_new(name, command_func, private_data)>> \o cmds,
     status |-> "PicolOk"]

\* the registry after register_command, and the status it returns
register_command(cmds, name, command_func, private_data) ==
    IF get_command(cmds, name) # 0
    THEN [commands |-> cmds, status |-> "PicolErr"]
    ELSE [commands |-> <<PicolCmd_new(name, command_func, private_data)>> \o cmds,
          status |-> "PicolOk"]

CoreCommands ==
    <<PicolCmd_new(S_plus, "picol_cmd_math", <<>>),
      PicolCmd_new(S_minus, "picol_cmd_math", <<>>),
      PicolCmd_new(S_times, "picol_cmd_math", <<>>),
      PicolCmd_new(S_div, "picol_cmd_math", <<>>),
      PicolCmd_new(S_gt, "picol_cmd_math", <<>>),
      PicolCmd_new(S_lt, "picol_cmd_math", <<>>),
      PicolCmd_new(S_ge, "picol_cmd_math", <<>>),
      PicolCmd_new(S_le, "picol_cmd_math", <<>>),
      PicolCmd_new(S_eq, "picol_cmd_math", <<>>),
      PicolCmd_new(S_ne, "picol_cmd_math", <<>>),
      PicolCmd_new(S_set, "picol_cmd_set", <<>>),
      PicolCmd_new(S_puts, "picol_cmd_puts", <<>>),
      PicolCmd_new(S_if, "picol_cmd_if", <<>>),
      PicolCmd_new(S_while, "picol_cmd_while", <<>>),
      PicolCmd_new(S_break, "picol_cmd_retcodes", <<S_break>>),
      PicolCmd_new(S_continue, "picol_cmd_retcodes", <<S_continue>>),
      PicolCmd_new(S_proc, "picol_cmd_proc", <<>>),
      PicolCmd_new(S_return, "picol_cmd_return", <<>>)>>

\* the registry after the calls lo..hi of register_core_commands, made on cmds
\* (the test on Len(cmds), which is never true, has TLC evaluate cmds first)
RECURSIVE register_core_range(_, _, _)
register_core_range(cmds, lo, hi) ==
    IF Len(cmds) < 0 \/ lo > hi THEN cmds
    ELSE IF lo = hi
    THEN register_command(cmds, CoreCommands[lo].name,
                          CoreCommands[lo].command_func,
                          CoreCommands[lo].private_data).commands
    ELSE register_core_range(register_core_range(cmds, lo, (lo + hi) \div 2),
                             ((lo + hi) \div 2) + 1, hi)

\* the registry after the first k calls of register_core_commands
register_core_commands(k) == register_core_range(<<>>, 1, k)

NoVars == [n \in {} |-> <<>>]

PicolCallFrame_new == [vars |-> NoVars]

\* get_var searching the parent frames too
RECURSIVE get_var_chain(_, _)
get_var_chain(frames, name) ==
    IF frames = <<>> THEN <<>>
    ELSE IF name \in DOMAIN frames[1].vars THEN <<frames[1].vars[name]>>
    ELSE get_var_chain(Tail(frames), name)

\* callframes is the chain headed by callframes_head, current frame first.
\* get_var: <<value>> for Some(variable), <<>> for None
get_var(frames, name) ==
    IF name \in DOMAIN frames[1].vars THEN <<frames[1].vars[name]>> ELSE <<>>

\* the chain after set_var: insert or update in the current frame
set_var(frames, name, value) ==
    [frames EXCEPT ![1].vars =
        [n \in (DOMAIN frames[1].vars) \cup {name} |->
            IF n = name THEN value ELSE frames[1].vars[n]]]

\* the chain after drop_callframe
drop_callframe(frames) == Tail(frames)

\* the chain after the for loop of picol_cmd_call_proc has bound args[k..]
RECURSIVE bind_args(_, _, _, _)
bind_args(frames, args, argv, k) ==
    IF k > Len(args) THEN frames
    ELSE bind_args(set_var(frames, args[k], argv[k + 1]), args, argv, k + 1)

(***************************************************************************)
(* eval: the token slice and the word list                                 *)
(***************************************************************************)
\* parser.string[parser.start..parser.end] does not panic
\* (start and end are byte offsets: the slice panics when start > end, when
\* end is past the last byte, and when either falls inside a character)
slice_ok(p) ==
    /\ p.start <= p.end
    /\ is_char_boundary(p.string, p.start)
    /\ is_char_boundary(p.string, p.end)

\* parser.string[parser.start..parser.end].to_string()
token_of(p) ==
    SubSeq(p.string, char_position(p.string, p.start) + 1,
           char_position(p.string, p.end))

\* argv.pop().unwrap() of the interpolation branch does not panic
can_join(argv, prev_type) ==
    prev_type = "PTSep" \/ prev_type = "PTEol" \/ argv # <<>>

\* argv after the new token: a new word, or appended to the last word
join_word(argv, prev_type, token) ==
    IF prev_type = "PTSep" \/ prev_type = "PTEol"
    THEN Append(argv, token)
    ELSE [argv EXCEPT ![Len(argv)] = @ \o token]

(***************************************************************************)
(* Bounds and inputs                                                       *)
(***************************************************************************)
\* the most commands one run dispatches (a while loop may never end)
MaxDispatch == 10

(***************************************************************************)
(* Input texts.  Two kinds are used.  The texts of the first kind are      *)
(* written the way the language is meant to be written.  In the texts of   *)
(* the second kind every word carries one more character ("." after a      *)
(* plain word, "_" after a variable name), a nested script is followed by  *)
(* ";" and a comment, and the text ends in a comment as long as what       *)
(* precedes it: the words the evaluator then dispatches are the words      *)
(* without the added characters.                                           *)
(***************************************************************************)
W(w) == w \o <<".">>

Ref(n) == <<"$">> \o n \o <<"_">>

Pad(b) == b \o <<";", "#">> \o [k \in 1..Len(b) |-> "."]

Braced(b) == <<"{">> \o Pad(b) \o <<"}">>

Bracketed(b) == <<"[">> \o Pad(b) \o <<"]">>

RECURSIVE JoinWith(_, _)
JoinWith(parts, c) ==
    IF Len(parts) = 1 THEN parts[1]
    ELSE parts[1] \o <<c>> \o JoinWith(Tail(parts), c)

\* one command from its words; one script from its commands
Sp(words) == JoinWith(words, " ")

Semi(cmds) == JoinWith(cmds, ";")

ProgNaiveSet == <<<<"s", "e", "t", " ", "x", " ", "5", ";", " ", "s", "e", "t", " ", "y", " ", "$", "x">>>>

ProgNaiveJoin == <<<<"s", "e", "t", " ", "a", " ", "f", "o", "o", ";", " ", "p", "u", "t", "s", " ", "b", "a", "r", "$", "a">>>>

ProgNaiveNest == <<<<"+", " ", "[", "+", " ", "1", " ", "2", "]", " ", "3">>>>

ProgNaiveWhile ==
    <<Pad(Sp(<<W(S_set), W(<<"i">>), W(<<"0">>)>>)),
      <<"w", "h", "i", "l", "e", " ", "{", "<", " ", "$", "i", " ", "3", "}", " ", "{", " ", "s", "e", "t", " ", "i", " ", "[", "+", " ", "$", "i", " ", "1", "]", " ", "}">>>>

\* proc p {a} {set r 1} / proc p {a} {set r 2} / p 7
ProgDup ==
    <<Pad(Sp(<<W(S_proc), W(<<"p">>), <<"{", "a", ".", "}">>,
               Braced(Sp(<<W(S_set), W(<<"r">>), W(<<"1">>)>>))>>)),
      Pad(Sp(<<W(S_proc), W(<<"p">>), <<"{", "a", ".", "}">>,
               Braced(Sp(<<W(S_set), W(<<"r">>), W(<<"2">>)>>))>>)),
      Pad(Sp(<<W(<<"p">>), W(<<"7">>)>>))>>

\* proc set {a} {puts $a} / set x 4
ProgDupBuiltin ==
    <<Pad(Sp(<<W(S_proc), W(S_set), <<"{", "a", ".", "}">>,
               Braced(Sp(<<W(S_puts), Ref(<<"a">>)>>))>>)),
      Pad(Sp(<<W(S_set), W(<<"x">>), W(<<"4">>)>>))>>

\* set x 1; proc p {} {puts $x}; p
ProgIsolation ==
    <<Pad(Semi(<<Sp(<<W(S_set), W(<<"x">>), W(<<"1">>)>>),
                 Sp(<<W(S_proc), W(<<"p">>), <<"{", " ", "}">>,
                      Braced(Sp(<<W(S_puts), Ref(<<"x">>)>>))>>),
                 W(<<"p">>)>>))>>

\* set x 1; proc q {x} {puts $x}; q 5; puts $x
ProgParam ==
    <<Pad(Semi(<<Sp(<<W(S_set), W(<<"x">>), W(<<"1">>)>>),
                 Sp(<<W(S_proc), W(<<"q">>), <<"{", "x", ".", "}">>,
                      Braced(Sp(<<W(S_puts), Ref(<<"x">>)>>))>>),
                 Sp(<<W(<<"q">>), W(<<"5">>)>>),
                 Sp(<<W(S_puts), Ref(<<"x">>)>>)>>))>>

\* proc p {a} {set r 1} / p / set x 1
ProgArity ==
    <<Pad(Sp(<<W(S_proc), W(<<"p">>), <<"{", "a", ".", "}">>,
               Braced(Sp(<<W(S_set), W(<<"r">>), W(<<"1">>)>>))>>)),
      Pad(W(<<"p">>)),
      Pad(Sp(<<W(S_set), W(<<"x">>), W(<<"1">>)>>))>>

\* set i 0 / while {< $i 3} {set i [+ $i 1]}
ProgWhile3 ==
    <<Pad(Sp(<<W(S_set), W(<<"i">>), W(<<"0">>)>>)),
      Pad(Sp(<<W(S_while),
               Braced(Sp(<<W(S_lt), Ref(<<"i">>), W(<<"3">>)>>)),
               Braced(Sp(<<W(S_set), W(<<"i">>),
                           Bracketed(Sp(<<W(S_plus), Ref(<<"i">>), W(<<"1">>)>>))>>))>>))>>

\* while {== 1 1} {foo}
ProgWhileErr ==
    <<Pad(Sp(<<W(S_while),
               Braced(Sp(<<W(S_eq), W(<<"1">>), W(<<"1">>)>>)),
               Braced(W(<<"f", "o", "o">>))>>))>>

\* while {== 1 1} {return 5}
ProgWhileRet ==
    <<Pad(Sp(<<W(S_while),
               Braced(Sp(<<W(S_eq), W(<<"1">>), W(<<"1">>)>>)),
               Braced(Sp(<<W(S_return), W(<<"5">>)>>))>>))>>

\* while {foo} {puts a}; puts b
ProgWhileCondErr ==
    <<Pad(Semi(<<Sp(<<W(S_while),
                      Braced(W(<<"f", "o", "o">>)),
                      Braced(Sp(<<W(S_puts), W(<<"a">>)>>))>>),
                 Sp(<<W(S_puts), W(<<"b">>)>>)>>))>>

\* while {== 1 1} {break; puts a}; set y 2
ProgWhileBreak ==
    <<Pad(Semi(<<Sp(<<W(S_while),
                      Braced(Sp(<<W(S_eq), W(<<"1">>), W(<<"1">>)>>)),
                      Braced(Semi(<<W(S_break), Sp(<<W(S_puts), W(<<"a">>)>>)>>))>>),
                 Sp(<<W(S_set), W(<<"y">>), W(<<"2">>)>>)>>))>>

\* while {== 1 1} {continue}
ProgWhileCont ==
    <<Pad(Sp(<<W(S_while),
               Braced(Sp(<<W(S_eq), W(<<"1">>), W(<<"1">>)>>)),
               Braced(W(S_continue))>>))>>

\* while {== 1 2} {puts a}; puts b
ProgWhileFalse ==
    <<Pad(Semi(<<Sp(<<W(S_while),
                      Braced(Sp(<<W(S_eq), W(<<"1">>), W(<<"2">>)>>)),
                      Braced(Sp(<<W(S_puts), W(<<"a">>)>>))>>),
                 Sp(<<W(S_puts), W(<<"b">>)>>)>>))>>

\* foo 1; set y 2 / / 4 0; set y 2 / set y 3
ProgAbort ==
    <<Pad(Semi(<<Sp(<<W(<<"f", "o", "o">>), W(<<"1">>)>>),
                 Sp(<<W(S_set), W(<<"y">>), W(<<"2">>)>>)>>)),
      Pad(Semi(<<Sp(<<W(S_div), W(<<"4">>), W(<<"0">>)>>),
                 Sp(<<W(S_set), W(<<"y">>), W(<<"2">>)>>)>>)),
      Pad(Sp(<<W(S_set), W(<<"y">>), W(<<"3">>)>>))>>

\* set x [foo]; set y 2
ProgSubErr ==
    <<Pad(Semi(<<Sp(<<W(S_set), W(<<"x">>), Bracketed(W(<<"f", "o", "o">>))>>),
                 Sp(<<W(S_set), W(<<"y">>), W(<<"2">>)>>)>>))>>

\* set x [break]; set y 2
ProgSubBreak ==
    <<Pad(Semi(<<Sp(<<W(S_set), W(<<"x">>), Bracketed(W(S_break))>>),
                 Sp(<<W(S_set), W(<<"y">>), W(<<"2">>)>>)>>))>>

\* set x [+ 1 2]
ProgSubText ==
    <<Pad(Sp(<<W(S_set), W(<<"x">>),
               Bracketed(Sp(<<W(S_plus), W(<<"1">>), W(<<"2">>)>>))>>))>>

\* + [+ 1 2] 3
ProgNest ==
    <<Pad(Sp(<<W(S_plus),
               Bracketed(Sp(<<W(S_plus), W(<<"1">>), W(<<"2">>)>>)),
               W(<<"3">>)>>))>>

\* set a foo; puts bar$a
ProgJoin ==
    <<Pad(Semi(<<Sp(<<W(S_set), W(<<"a">>), W(<<"f", "o", "o">>)>>),
                 Sp(<<W(S_puts), W(<<"b", "a", "r">>) \o Ref(<<"a">>)>>)>>))>>

\* set x 5; set y $x
ProgSetGet ==
    <<Pad(Semi(<<Sp(<<W(S_set), W(<<"x">>), W(<<"5">>)>>),
                 Sp(<<W(S_set), W(<<"y">>), Ref(<<"x">>)>>)>>))>>

\* if {== 1 1} {puts a} / if {== 1 2} {puts a} else {puts b} / if {== 1 2} {puts a}
ProgIf ==
    <<Pad(Sp(<<W(S_if),
               Braced(Sp(<<W(S_eq), W(<<"1">>), W(<<"1">>)>>)),
               Braced(Sp(<<W(S_puts), W(<<"a">>)>>))>>)),
      Pad(Sp(<<W(S_if),
               Braced(Sp(<<W(S_eq), W(<<"1">>), W(<<"2">>)>>)),
               Braced(Sp(<<W(S_puts), W(<<"a">>)>>)),
               W(<<"e", "l", "s", "e">>),
               Braced(Sp(<<W(S_puts), W(<<"b">>)>>))>>)),
      Pad(Sp(<<W(S_if),
               Braced(Sp(<<W(S_eq), W(<<"1">>), W(<<"2">>)>>)),
               Braced(Sp(<<W(S_puts), W(<<"a">>)>>))>>))>>

\* proc f {a} {return $a; puts b} / f 5 / ;f  6;; puts
ProgReturn ==
    <<Pad(Sp(<<W(S_proc), W(<<"f">>), <<"{", "a", ".", "}">>,
               Braced(Semi(<<Sp(<<W(S_return), Ref(<<"a">>)>>),
                             Sp(<<W(S_puts), W(<<"b">>)>>)>>))>>)),
      Pad(Sp(<<W(<<"f">>), W(<<"5">>)>>)),
      Pad(Semi(<<<<>>, Sp(<<W(<<"f">>), <<>>, W(<<"6">>)>>), <<>>, W(S_puts)>>))>>

\* + 2 3 / - 2 3 / * 4 5 / / 7 2 / + a 1
ProgMath ==
    <<Pad(Sp(<<W(S_plus), W(<<"2">>), W(<<"3">>)>>)),
      Pad(Sp(<<W(S_minus), W(<<"2">>), W(<<"3">>)>>)),
      Pad(Sp(<<W(S_times), W(<<"4">>), W(<<"5">>)>>)),
      Pad(Sp(<<W(S_div), W(<<"7">>), W(<<"2">>)>>)),
      Pad(Sp(<<W(S_plus), W(<<"a">>), W(<<"1">>)>>))>>

\* foo 1 2, as written
ProgNaiveUnknown ==
    <<<<"f", "o", "o", " ", "1", " ", "2">>>>

\* foo, as written
ProgNaiveWord ==
    <<<<"f", "o", "o">>>>

\* proc r {} {return}; proc b {} {break} / r / b
ProgProcReturn ==
    <<Pad(Semi(<<Sp(<<W(S_proc), W(<<"r">>), <<"{", " ", "}">>, Braced(W(S_return))>>),
                 Sp(<<W(S_proc), W(<<"b">>), <<"{", " ", "}">>, Braced(W(S_break))>>)>>)),
      Pad(W(<<"r">>)),
      Pad(W(<<"b">>))>>

\* proc c {} {continue}; proc e {} {foo}; proc k {} {set v 1} / c / e / k
ProgProcStatus ==
    <<Pad(Semi(<<Sp(<<W(S_proc), W(<<"c">>), <<"{", " ", "}">>, Braced(W(S_continue))>>),
                 Sp(<<W(S_proc), W(<<"e">>), <<"{", " ", "}">>,
                      Braced(W(<<"f", "o", "o">>))>>),
                 Sp(<<W(S_proc), W(<<"k">>), <<"{", " ", "}">>,
                      Braced(Sp(<<W(S_set), W(<<"v">>), W(<<"1">>)>>))>>)>>)),
      Pad(W(<<"c">>)),
      Pad(W(<<"e">>)),
      Pad(W(<<"k">>))>>

\* set v 1 / / 4 0 / / 0 0 / / -3 -0
ProgDivZero ==
    <<Pad(Sp(<<W(S_set), W(<<"v">>), W(<<"1">>)>>)),
      Pad(Sp(<<W(S_div), W(<<"4">>), W(<<"0">>)>>)),
      Pad(Sp(<<W(S_div), W(<<"0">>), W(<<"0">>)>>)),
      Pad(Sp(<<W(S_div), W(<<"-", "3">>), W(<<"-", "0">>)>>))>>

\* break / continue / if {== 1 1} {break} / if {== 1 2} {puts a} else {continue}
ProgLoose ==
    <<Pad(W(S_break)),
      Pad(W(S_continue)),
      Pad(Sp(<<W(S_if),
               Braced(Sp(<<W(S_eq), W(<<"1">>), W(<<"1">>)>>)),
               Braced(W(S_break))>>)),
      Pad(Sp(<<W(S_if),
               Braced(Sp(<<W(S_eq), W(<<"1">>), W(<<"2">>)>>)),
               Braced(Sp(<<W(S_puts), W(<<"a">>)>>)),
               W(<<"e", "l", "s", "e">>),
               Braced(W(S_continue))>>))>>

\* proc p {} {if {== 1 1} {break}}; set x [p]; set y 2 / set x [continue]
ProgLooseProc ==
    <<Pad(Semi(<<Sp(<<W(S_proc), W(<<"p">>), <<"{", " ", "}">>,
                      Braced(Sp(<<W(S_if),
                                  Braced(Sp(<<W(S_eq), W(<<"1">>), W(<<"1">>)>>)),
                                  Braced(W(S_break))>>))>>),
                 Sp(<<W(S_set), W(<<"x">>), Bracketed(W(<<"p">>))>>),
                 Sp(<<W(S_set), W(<<"y">>), W(<<"2">>)>>)>>)),
      Pad(Sp(<<W(S_set), W(<<"x">>), Bracketed(W(S_continue))>>))>>

\* if {== 1 2} {puts a} foo {puts b} / if {+ 1 1} {puts a} / if {== 1 1} {break} else {puts b}
ProgIfForms ==
    <<Pad(Sp(<<W(S_if),
               Braced(Sp(<<W(S_eq), W(<<"1">>), W(<<"2">>)>>)),
               Braced(Sp(<<W(S_puts), W(<<"a">>)>>)),
               W(<<"f", "o", "o">>),
               Braced(Sp(<<W(S_puts), W(<<"b">>)>>))>>)),
      Pad(Sp(<<W(S_if),
               Braced(Sp(<<W(S_plus), W(<<"1">>), W(<<"1">>)>>)),
               Braced(Sp(<<W(S_puts), W(<<"a">>)>>))>>)),
      Pad(Sp(<<W(S_if),
               Braced(Sp(<<W(S_eq), W(<<"1">>), W(<<"1">>)>>)),
               Braced(W(S_break)),
               W(<<"e", "l", "s", "e">>),
               Braced(Sp(<<W(S_puts), W(<<"b">>)>>))>>))>>

\* < 1 b / set y 3
ProgBadOperand ==
    <<Pad(Sp(<<W(S_lt), W(<<"1">>), W(<<"b">>)>>)),
      Pad(Sp(<<W(S_set), W(<<"y">>), W(<<"3">>)>>))>>

\* set x 1 and set y 2 separated by a newline followed by a space
ProgTermNewline ==
    <<Pad(Sp(<<W(S_set), W(<<"x">>), W(<<"1">>)>>) \o <<"\n", " ">>
          \o Sp(<<W(S_set), W(<<"y">>), W(<<"2">>)>>))>>

\* ... by a ";" between two spaces
ProgTermSemi ==
    <<Pad(Sp(<<W(S_set), W(<<"x">>), W(<<"1">>)>>) \o <<" ", ";", " ">>
          \o Sp(<<W(S_set), W(<<"y">>), W(<<"2">>)>>))>>

\* ... by a space and a newline
ProgTermSpaceNewline ==
    <<Pad(Sp(<<W(S_set), W(<<"x">>), W(<<"1">>)>>) \o <<" ", "\n">>
          \o Sp(<<W(S_set), W(<<"y">>), W(<<"2">>)>>))>>

\* ... by CR and a newline
ProgTermCrNewline ==
    <<Pad(Sp(<<W(S_set), W(<<"x">>), W(<<"1">>)>>) \o <<"\r", "\n">>
          \o Sp(<<W(S_set), W(<<"y">>), W(<<"2">>)>>))>>

\* one text each
TerminatorPrograms ==
    {ProgTermNewline, ProgTermSemi, ProgTermSpaceNewline, ProgTermCrNewline}

\* puts hi, as written, with no terminator after it
ProgNaiveLast ==
    <<<<"p", "u", "t", "s", " ", "h", "i">>>>

\* puts hello with no terminator after it
ProgLast ==
    <<Sp(<<W(S_puts), W(<<"h", "e", "l", "l", "o">>)>>)>>

\* set x 1; proc q {x} {set x 9; set t 2}; q 5 / puts $t
ProgFrameLocal ==
    <<Pad(Semi(<<Sp(<<W(S_set), W(<<"x">>), W(<<"1">>)>>),
                 Sp(<<W(S_proc), W(<<"q">>), <<"{", "x", ".", "}">>,
                      Braced(Semi(<<Sp(<<W(S_set), W(<<"x">>), W(<<"9">>)>>),
                                    Sp(<<W(S_set), W(<<"t">>), W(<<"2">>)>>)>>))>>),
                 Sp(<<W(<<"q">>), W(<<"5">>)>>)>>)),
      Pad(Sp(<<W(S_puts), Ref(<<"t">>)>>))>>

\* proc h {a} {if {== $a 1} {set t 7} else {puts $t}}; h 1 / h 2
ProgFrameFresh ==
    <<Pad(Semi(<<Sp(<<W(S_proc), W(<<"h">>), <<"{", "a", ".", "}">>,
                      Braced(Sp(<<W(S_if),
                                  Braced(Sp(<<W(S_eq), Ref(<<"a">>), W(<<"1">>)>>)),
                                  Braced(Sp(<<W(S_set), W(<<"t">>), W(<<"7">>)>>)),
                                  W(<<"e", "l", "s", "e">>),
                                  Braced(Sp(<<W(S_puts), Ref(<<"t">>)>>))>>))>>),
                 Sp(<<W(<<"h">>), W(<<"1">>)>>)>>)),
      Pad(Sp(<<W(<<"h">>), W(<<"2">>)>>))>>

\* set x 1; proc q {a} {set r 1}; proc p {b} {q}; p 5 / set y $b
ProgFrameLeak ==
    <<Pad(Semi(<<Sp(<<W(S_set), W(<<"x">>), W(<<"1">>)>>),
                 Sp(<<W(S_proc), W(<<"q">>), <<"{", "a", ".", "}">>,
                      Braced(Sp(<<W(S_set), W(<<"r">>), W(<<"1">>)>>))>>),
                 Sp(<<W(S_proc), W(<<"p">>), <<"{", "b", ".", "}">>,
                      Braced(W(<<"q">>))>>),
                 Sp(<<W(<<"p">>), W(<<"5">>)>>)>>)),
      Pad(Sp(<<W(S_set), W(<<"y">>), Ref(<<"b">>)>>))>>

\* / 7 2 / / -7 2 / / 7 -2 / / -7 -2 / / -2147483648 2 / / 2147483647 -1 /
\* / 1 -2147483648
ProgDivide ==
    <<Pad(Sp(<<W(S_div), W(<<"7">>), W(<<"2">>)>>)),
      Pad(Sp(<<W(S_div), W(<<"-", "7">>), W(<<"2">>)>>)),
      Pad(Sp(<<W(S_div), W(<<"7">>), W(<<"-", "2">>)>>)),
      Pad(Sp(<<W(S_div), W(<<"-", "7">>), W(<<"-", "2">>)>>)),
      Pad(Sp(<<W(S_div), W(<<"-", "2", "1", "4", "7", "4", "8", "3", "6", "4", "8">>), W(<<"2">>)>>)),
      Pad(Sp(<<W(S_div), W(<<"2", "1", "4", "7", "4", "8", "3", "6", "4", "7">>), W(<<"-", "1">>)>>)),
      Pad(Sp(<<W(S_div), W(<<"1">>), W(<<"-", "2", "1", "4", "7", "4", "8", "3", "6", "4", "8">>)>>))>>

\* / -2147483648 -1 / / 7 2
ProgDivOverflow ==
    <<Pad(Sp(<<W(S_div), W(<<"-", "2", "1", "4", "7", "4", "8", "3", "6", "4", "8">>), W(<<"-", "1">>)>>)),
      Pad(Sp(<<W(S_div), W(<<"7">>), W(<<"2">>)>>))>>

\* > 2 1 / < 2 1 / >= 2 2 / <= 3 2 / == -1 -1 / != 1 1 /
\* < -2147483648 2147483647 / > -2147483648 2147483647
ProgCompare ==
    <<Pad(Sp(<<W(S_gt), W(<<"2">>), W(<<"1">>)>>)),
      Pad(Sp(<<W(S_lt), W(<<"2">>), W(<<"1">>)>>)),
      Pad(Sp(<<W(S_ge), W(<<"2">>), W(<<"2">>)>>)),
      Pad(Sp(<<W(S_le), W(<<"3">>), W(<<"2">>)>>)),
      Pad(Sp(<<W(S_eq), W(<<"-", "1">>), W(<<"-", "1">>)>>)),
      Pad(Sp(<<W(S_ne), W(<<"1">>), W(<<"1">>)>>)),
      Pad(Sp(<<W(S_lt), W(<<"-", "2", "1", "4", "7", "4", "8", "3", "6", "4", "8">>), W(<<"2", "1", "4", "7", "4", "8", "3", "6", "4", "7">>)>>)),
      Pad(Sp(<<W(S_gt), W(<<"-", "2", "1", "4", "7", "4", "8", "3", "6", "4", "8">>), W(<<"2", "1", "4", "7", "4", "8", "3", "6", "4", "7">>)>>))>>

\* a text of one character of two bytes
ProgWideText == <<<<"é">>>>

\* puts é
ProgWideWord == <<Pad(Sp(<<W(S_puts), W(<<"é">>)>>))>>

\* puts a b, with a no-break space between a and b
ProgWideSpace == <<Pad(Sp(<<W(S_puts), W(<<"a", NBSP, "b">>)>>))>>

\* a variable reference with a name of one character of two bytes
ProgWideVar == <<<<"$", "é">>>>

\* proc p {a. b} {set r 1}, with a form feed between a. and b / p 1 2 / p 1
ProgWideParams ==
    <<Pad(Sp(<<W(S_proc), W(<<"p">>), <<"{", "a", ".", "\f", "b", ".", "}">>,
               Braced(Sp(<<W(S_set), W(<<"r">>), W(<<"1">>)>>))>>)),
      Pad(Sp(<<W(<<"p">>), W(<<"1">>), W(<<"2">>)>>)),
      Pad(Sp(<<W(<<"p">>), W(<<"1">>)>>))>>

\* an empty line and set x 4, each as read_line returns it, the newline
\* included
ProgLines ==
    <<<<"\n">>, <<"s", "e", "t", " ", "x", " ", "4", "\n">>>>

\* the longest text of whitespace and terminators evaluated
MaxBlank == 3

BlankChars == {" ", "\t", "\r", "\n", ";"}

\* the texts of at most MaxBlank whitespace characters and terminators
BlankRuns == UNION {[1..n -> BlankChars] : n \in 0..MaxBlank}

\* a comment follows where a command may start: at the start of the text or
\* after a newline or a ";"
BlankComments ==
    {t \o <<"#", "c">> :
        t \in {r \in BlankRuns : r = <<>> \/ r[Len(r)] \in {"\n", ";"}}}

\* the texts made of whitespace, terminators and comments only
BlankTexts == BlankRuns \cup BlankComments

BlankPrograms == {<<t>> : t \in BlankTexts}

\* the longest content of a brace-quoted word evaluated
MaxBrace == 3

BraceChars == {"a", "$", "[", "{", "}"}

\* the number of characters c among the first k characters of t
CountIn(t, c, k) == Cardinality({i \in 1..k : t[i] = c})

\* every "}" of t closes a "{" of t, and every "{" is closed
Balanced(t) ==
    /\ \A k \in 1..Len(t) : CountIn(t, "}", k) <= CountIn(t, "{", k)
    /\ CountIn(t, "}", Len(t)) = CountIn(t, "{", Len(t))

\* the contents of at most MaxBrace characters with balanced braces
BraceContents ==
    {t \in UNION {[1..n -> BraceChars] : n \in 0..MaxBrace} : Balanced(t)}

\* one text each, made of one brace-quoted word
BracePrograms == {<<<<"{">> \o t \o <<"}">>>> : t \in BraceContents}

Programs ==
    {ProgNaiveSet, ProgNaiveJoin, ProgNaiveNest, ProgNaiveWhile, ProgDup,
     ProgDupBuiltin, ProgIsolation, ProgParam, ProgArity, ProgWhile3,
     ProgWhileErr, ProgWhileRet, ProgWhileCondErr, ProgWhileBreak,
     ProgWhileCont, ProgWhileFalse, ProgAbort, ProgSubErr, ProgSubBreak,
     ProgSubText, ProgNest, ProgJoin, ProgSetGet, ProgIf, ProgReturn, ProgMath,
     ProgNaiveUnknown,
     ProgNaiveWord,
     ProgProcReturn, ProgProcStatus,
     ProgDivZero,
     ProgLoose,
     ProgLooseProc,
     ProgIfForms,
     ProgBadOperand,
     ProgNaiveLast,
     ProgLast,
     ProgFrameLocal,
     ProgFrameFresh,
     ProgFrameLeak,
     ProgDivide,
     ProgDivOverflow,
     ProgCompare,
     ProgWideText, ProgWideWord, ProgWideSpace, ProgWideVar, ProgWideParams,
     ProgLines}
    \cup TerminatorPrograms \cup BlankPrograms \cup BracePrograms

(***************************************************************************)
(* State                                                                   *)
(***************************************************************************)
VARIABLES
    commands,    \* PicolInterpreter.commands_head: the list of PicolCmd, head first
    callframes,  \* PicolInterpreter.callframes_head: the chain of frames, current first
    result,      \* PicolInterpreter.result
    stack,       \* the activations of eval and of the handlers that call eval, innermost last
    ret,         \* the PicolResult being returned to the innermost activation, or "none"
    panicked,    \* TRUE once the process has aborted with a panic
    stdout_failed, \* TRUE once a println! has panicked on a failed write to stdout
    entry_frames,  \* history: for each procedure call whose body is being
                   \* evaluated, the chain of frames when the call was made,
                   \* the innermost call last
    args_len,    \* main: args.len(), 3 for every length above 2
    main_pc,     \* main: "args" before line 9, "prompt" before line 14, "read" in read_line or
                 \* read_to_string, "eval" from the call of eval to the end of
                 \* the println, "done" once main has returned
    eofs,        \* main: the number of times read_line has met the end of stdin
    program,     \* the texts main reads: the lines that come on stdin, or the
                 \* content of the file, none when the file cannot be read
    input,       \* main: the texts of program not read yet
    returned,    \* main: (retcode, interpreter.result) after each eval, in order
    output,      \* the bytes stdout has taken
    stdout_buf,  \* the bytes print! and println! have left in the buffer of stdout
    dispatched   \* the word lists looked up by eval at an end of command, in order

vars == <<commands, callframes, result, stack, ret, panicked, stdout_failed,
          entry_frames, args_len, main_pc, eofs,
          program, input,
          returned, output, stdout_buf, dispatched>>

\* an activation of eval on the text t: its locals parser, argv (argc is
\* Len(argv)), retcode, prev_type, token; phase is "run" in the loop, "cmdsub"
\* in the nested eval of line 408, "dispatch" in the handler call of line 427
EvalFrame(t) ==
    [kind |-> "eval", p |-> PicolParser_new(t), argv |-> <<>>,
     retcode |-> "PicolOk", prev_type |-> "PTEol", token |-> <<>>,
     phase |-> "run"]

\* an activation of picol_cmd_if, picol_cmd_while or picol_cmd_call_proc,
\* waiting in the eval call named by phase
CmdFrame(kind, argv, phase) ==
    [kind |-> kind, p |-> PicolParser_new(<<>>), argv |-> argv,
     retcode |-> "PicolOk", prev_type |-> "PTEol", token |-> <<>>,
     phase |-> phase]

Top == stack[Len(stack)]

Pop == SubSeq(stack, 1, Len(stack) - 1)

ReplaceTop(f) == [stack EXCEPT ![Len(stack)] = f]

\* the last newline of the bytes p, 0 when it has none
last_newline(p) ==
    IF \E i \in DOMAIN p : p[i] = 10
    THEN CHOOSE i \in DOMAIN p : p[i] = 10 /\ \A j \in (i + 1)..Len(p) : p[j] # 10
    ELSE 0

\* stdout is line buffered.  print! and println! hand it their text in
\* pieces, the literal parts of the format and the arguments, in order.  A
\* piece without a newline is added to the buffer buf.  Of a piece with a
\* newline the bytes up to the last newline are written, behind the bytes of
\* the buffer and with them if there are any, and the bytes after it become
\* the buffer.  write_fmt is the writes made for the pieces, in order, and the
\* buffer left; buffered tells that a write is made from the buffer, which
\* keeps the bytes a failed write has not written.  The buffer has room for
\* 1024 bytes, more than the prompts and the line of one run come to.
RECURSIVE write_fmt(_, _, _)
write_fmt(buf, pieces, writes) ==
    IF pieces = <<>> THEN [buf |-> buf, writes |-> writes]
    ELSE LET p == Head(pieces)
             nl == last_newline(p)
         IN  IF nl = 0 THEN write_fmt(buf \o p, Tail(pieces), writes)
             ELSE write_fmt(SubSeq(p, nl + 1, Len(p)), Tail(pieces),
                            Append(writes, [bytes |-> buf \o SubSeq(p, 1, nl),
                                            buffered |-> buf # <<>>]))

\* the bytes of the writes ws, in order
RECURSIVE written(_)
written(ws) == IF ws = <<>> THEN <<>> ELSE Head(ws).bytes \o written(Tail(ws))

\* stdout takes every write made for the pieces
StdoutTakes(pieces) ==
    LET w == write_fmt(stdout_buf, pieces, <<>>) IN
    /\ output' = output \o written(w.writes)
    /\ stdout_buf' = w.buf

\* a write made for the pieces fails, stdout having taken the writes before
\* it and k bytes of this one, not all: print! and println! panic
StdoutRefuses(pieces) ==
    LET w == write_fmt(stdout_buf, pieces, <<>>) IN
    \E j \in DOMAIN w.writes : \E k \in 0..(Len(w.writes[j].bytes) - 1) :
        /\ output' = output \o written(SubSeq(w.writes, 1, j - 1))
                             \o SubSeq(w.writes[j].bytes, 1, k)
        /\ stdout_buf' = IF w.writes[j].buffered
                         THEN SubSeq(w.writes[j].bytes, k + 1, Len(w.writes[j].bytes))
                         ELSE <<>>
        /\ panicked' = TRUE
        /\ stdout_failed' = TRUE

\* print!("picol> ")
Prompt == <<"p", "i", "c", "o", "l", ">", " ">>

\* a text read_line can return: it ends at its first newline
IsLine(t) == \A k \in 1..(Len(t) - 1) : t[k] # "\n"

\* the programs stdin can deliver, each text a line, and the programs a file
\* can hold, one text
LinePrograms == {p \in Programs : \A k \in DOMAIN p : IsLine(p[k])}

FilePrograms == {p \in Programs : Len(p) = 1}

\* the most ends of stdin that read_line meets
MaxEof == 2

\* With no argument main reads stdin a line at a time, without end; with one
\* argument it reads one text from the file named; with more it does nothing.
Init ==
    /\ commands = register_core_commands(Len(CoreCommands))
    /\ callframes = <<PicolCallFrame_new>>
    /\ result = <<>>
    /\ stack = <<>>
    /\ ret = "none"
    /\ panicked = FALSE
    /\ stdout_failed = FALSE
    /\ entry_frames = <<>>
    /\ \/ args_len = 1 /\ program \in LinePrograms
       \/ args_len = 2 /\ program \in FilePrograms \cup {<<>>}
       \/ args_len = 3 /\ program = <<>>
    /\ main_pc = "args"
    /\ eofs = 0
    /\ input = program
    /\ returned = <<>>
    /\ output = <<>>
    /\ stdout_buf = <<>>
    /\ dispatched = <<>>

(***************************************************************************)
(* main                                                                    *)
(***************************************************************************)
\* env::args().collect() panics on an argument that is not Unicode;
\* otherwise main branches on args.len()
MainArgs ==
    /\ ~panicked /\ main_pc = "args"
    /\ \/ panicked' = TRUE /\ UNCHANGED main_pc
       \/ /\ main_pc' = IF args_len = 1 THEN "prompt"
                         ELSE IF args_len = 2 THEN "read" ELSE "done"
          /\ UNCHANGED panicked
    /\ UNCHANGED <<commands, callframes, result, stack, ret, stdout_failed, entry_frames,
                   args_len, eofs, program, input, returned, output, stdout_buf, dispatched>>

\* print!("picol> "): the prompt has no newline and stays in the buffer of
\* stdout; main then waits in read_line
MainPrompt ==
    /\ ~panicked /\ main_pc = "prompt"
    /\ StdoutTakes(<<as_bytes(Prompt)>>)
    /\ main_pc' = "read"
    /\ UNCHANGED <<commands, callframes, result, stack, ret, panicked, stdout_failed,
                   entry_frames, args_len, eofs, program, input, returned, dispatched>>

\* read_line or read_to_string returns the next text and main calls
\* interpreter.eval on it
MainEval ==
    /\ ~panicked /\ main_pc = "read" /\ input # <<>>
    /\ stack' = <<EvalFrame(Head(input))>>
    /\ input' = Tail(input)
    /\ result' = <<>>
    /\ main_pc' = "eval"
    /\ UNCHANGED <<commands, callframes, ret, panicked, stdout_failed, entry_frames, args_len, eofs, program, returned,
                   output, stdout_buf, dispatched>>

\* no line is left and stdin is at its end: read_line returns Ok(0), the
\* text stays empty and main calls interpreter.eval on it
MainEof ==
    /\ ~panicked /\ main_pc = "read" /\ args_len = 1 /\ input = <<>>
    /\ eofs < MaxEof
    /\ eofs' = eofs + 1
    /\ stack' = <<EvalFrame(<<>>)>>
    /\ result' = <<>>
    /\ main_pc' = "eval"
    /\ UNCHANGED <<commands, callframes, ret, panicked, stdout_failed, entry_frames, args_len, program, input,
                   returned, output, stdout_buf, dispatched>>

\* the unwrap of read_line panics on a line that is not UTF-8, the expect
\* of read_to_string on a file that cannot be read
MainReadPanic ==
    /\ ~panicked /\ main_pc = "read"
    /\ \/ args_len = 1 /\ input = <<>>
       \/ args_len = 2 /\ program = <<>>
    /\ panicked' = TRUE
    /\ UNCHANGED <<commands, callframes, result, stack, ret, stdout_failed, entry_frames, args_len, main_pc, eofs,
                   program, input, returned, output, stdout_buf, dispatched>>

\* eval has returned to main, which prints the status and a non-empty
\* result, and goes back to the prompt or returns; println! panics when a
\* write to stdout fails
MainPrint ==
    /\ ~panicked /\ main_pc = "eval" /\ stack = <<>> /\ ret # "none"
    /\ LET pieces == <<as_bytes(StatusText(ret)), as_bytes(<<" ">>),
                       as_bytes(result), as_bytes(<<"\n">>)>>
       IN  \/ /\ returned' = Append(returned, <<ret, result>>)
              /\ IF Len(result) > 0 THEN StdoutTakes(pieces)
                                    ELSE UNCHANGED <<output, stdout_buf>>
              /\ ret' = "none"
              /\ main_pc' = IF args_len = 1 THEN "prompt" ELSE "done"
              /\ UNCHANGED <<panicked, stdout_failed>>
           \/ /\ Len(result) > 0
              /\ StdoutRefuses(pieces)
              /\ UNCHANGED <<returned, ret, main_pc>>
    /\ UNCHANGED <<commands, callframes, result, stack, entry_frames, args_len, eofs,
                   program, input, dispatched>>

\* main has returned or the process has panicked: the runtime flushes the
\* buffer of stdout as far as stdout takes it, ignoring a failed write, and
\* the process ends
MainCleanup ==
    /\ panicked \/ main_pc = "done"
    /\ stdout_buf # <<>>
    /\ \E k \in 0..Len(stdout_buf) : output' = output \o SubSeq(stdout_buf, 1, k)
    /\ stdout_buf' = <<>>
    /\ UNCHANGED <<commands, callframes, result, stack, ret, panicked, stdout_failed,
                   entry_frames, args_len, main_pc, eofs, program, input, returned,
                   dispatched>>

(***************************************************************************)
(* eval: one iteration of its loop                                         *)
(***************************************************************************)
AtEval ==
    /\ ~panicked /\ stack # <<>> /\ ret = "none"
    /\ Top.kind = "eval" /\ Top.phase = "run"

\* the parser after parser.get_token() of this iteration
Tok == get_token(Top.p)

\* get_token returned and the token was copied out of the text
GoodTok == AtEval /\ ~Tok.panicked /\ (Tok.typ = "PTEof" \/ slice_ok(Tok))

\* get_token, or the slice of line 393, panics
EvalPanic ==
    /\ AtEval
    /\ Tok.panicked \/ (Tok.typ # "PTEof" /\ ~slice_ok(Tok))
    /\ panicked' = TRUE
    /\ UNCHANGED <<commands, callframes, result, stack, ret, stdout_failed, entry_frames, args_len, main_pc, eofs, program, input, returned,
                   output, stdout_buf, dispatched>>

\* PTEof: eval returns retcode
EvalEof ==
    /\ GoodTok /\ Tok.typ = "PTEof"
    /\ stack' = Pop
    /\ ret' = Top.retcode
    /\ UNCHANGED <<commands, callframes, result, panicked, stdout_failed, entry_frames, args_len, main_pc, eofs, program, input, returned,
                   output, stdout_buf, dispatched>>

\* the loop goes on with the word list extended by text
AddWord(prev_type, text) ==
    IF can_join(Top.argv, prev_type)
    THEN /\ stack' = ReplaceTop([Top EXCEPT !.p = Tok, !.phase = "run",
                                      !.argv = join_word(@, prev_type, text)])
         /\ UNCHANGED panicked
    ELSE /\ panicked' = TRUE
         /\ UNCHANGED stack

\* PTVar: the variable's value becomes the token, or eval returns PicolErr
EvalVar ==
    /\ GoodTok /\ Tok.typ = "PTVar"
    /\ IF get_var(callframes, token_of(Tok)) # <<>>
       THEN /\ AddWord(Top.p.typ, get_var(callframes, token_of(Tok))[1])
            /\ UNCHANGED <<result, ret>>
       ELSE /\ result' = MsgUnknownVariable \o token_of(Tok)
            /\ stack' = Pop
            /\ ret' = "PicolErr"
            /\ UNCHANGED panicked
    /\ UNCHANGED <<commands, callframes, stdout_failed, entry_frames, args_len, main_pc, eofs, program, input, returned, output, stdout_buf, dispatched>>

\* PTCmd: eval calls itself on the token
EvalCmd ==
    /\ GoodTok /\ Tok.typ = "PTCmd"
    /\ stack' = Append(ReplaceTop([Top EXCEPT !.p = Tok, !.phase = "cmdsub",
                                        !.token = token_of(Tok),
                                        !.prev_type = Top.p.typ]),
                       EvalFrame(token_of(Tok)))
    /\ result' = <<>>
    /\ UNCHANGED <<commands, callframes, ret, panicked, stdout_failed, entry_frames, args_len, main_pc, eofs, program, input, returned, output, stdout_buf,
                   dispatched>>

\* PTEsc or PTStr: the token is a new word or is appended to the last word
EvalText ==
    /\ GoodTok /\ Tok.typ \in {"PTEsc", "PTStr"}
    /\ AddWord(Top.p.typ, token_of(Tok))
    /\ UNCHANGED <<commands, callframes, result, ret, stdout_failed, entry_frames, args_len, main_pc, eofs, program, input, returned, output, stdout_buf,
                   dispatched>>

\* PTSep: continue
EvalSep ==
    /\ GoodTok /\ Tok.typ = "PTSep"
    /\ stack' = ReplaceTop([Top EXCEPT !.p = Tok])
    /\ UNCHANGED <<commands, callframes, result, ret, panicked, stdout_failed, entry_frames, args_len, main_pc, eofs, program, input, returned,
                   output, stdout_buf, dispatched>>

\* PTEol with argc = 0: prepare for the next command
EvalEolEmpty ==
    /\ GoodTok /\ Tok.typ = "PTEol" /\ Top.argv = <<>>
    /\ stack' = ReplaceTop([Top EXCEPT !.p = Tok])
    /\ UNCHANGED <<commands, callframes, result, ret, panicked, stdout_failed, entry_frames, args_len, main_pc, eofs, program, input, returned,
                   output, stdout_buf, dispatched>>

(***************************************************************************)
(* eval: dispatch of a complete command, with the handler it calls         *)
(***************************************************************************)
AtDispatch ==
    /\ GoodTok /\ Tok.typ = "PTEol" /\ Top.argv # <<>>
    /\ Len(dispatched) < MaxDispatch

argv == Top.argv

argc == Len(Top.argv)

\* position in commands of the command named argv[0], 0 for None
Cmd == get_command(commands, argv[1])

Calls(command_func) ==
    /\ AtDispatch /\ Cmd # 0
    /\ commands[Cmd].command_func = command_func
    /\ dispatched' = Append(dispatched, [argv |-> argv, found |-> TRUE])

\* the handler returns retcode to the call of line 427
Returns(retcode) ==
    /\ stack' = ReplaceTop([Top EXCEPT !.p = Tok, !.phase = "dispatch"])
    /\ ret' = retcode

\* picol_arrity_error
picol_arrity_error ==
    /\ result' = MsgWrongArgs \o argv[1]
    /\ Returns("PicolErr")

\* the handler calls eval on text, being in the given phase
CallsEval(kind, phase, text) ==
    /\ stack' = ReplaceTop([Top EXCEPT !.p = Tok, !.phase = "dispatch"])
                   \o <<CmdFrame(kind, argv, phase), EvalFrame(text)>>
    /\ result' = <<>>
    /\ ret' = "none"

\* get_command finds no command: eval returns PicolErr
EvalUnknownCommand ==
    /\ AtDispatch /\ Cmd = 0
    /\ dispatched' = Append(dispatched, [argv |-> argv, found |-> FALSE])
    /\ result' = MsgUnknownCommand \o argv[1]
    /\ stack' = Pop
    /\ ret' = "PicolErr"
    /\ UNCHANGED <<commands, callframes, panicked, stdout_failed, entry_frames, args_len, main_pc, eofs, program, input, returned, output, stdout_buf>>

picol_cmd_math ==
    /\ Calls("picol_cmd_math")
    /\ IF argc # 3
       THEN picol_arrity_error /\ UNCHANGED panicked
       ELSE LET a == parse_i32(argv[2])
                b == parse_i32(argv[3])
                m == math_result(argv[1], a.val, b.val)
            IN  IF ~a.ok \/ ~b.ok \/ m.kind = "panic"
                THEN panicked' = TRUE /\ UNCHANGED <<result, stack, ret>>
                ELSE IF m.kind = "divzero"
                THEN /\ result' = MsgDivisionByZero
                     /\ Returns("PicolErr")
                     /\ UNCHANGED panicked
                ELSE \E overflow_checks \in BOOLEAN :
                        IF m.kind = "overflow" /\ overflow_checks
                        THEN panicked' = TRUE /\ UNCHANGED <<result, stack, ret>>
                        ELSE /\ result' = to_string(m.val)
                             /\ Returns("PicolOk")
                             /\ UNCHANGED panicked
    /\ UNCHANGED <<commands, callframes, stdout_failed, entry_frames, args_len, main_pc, eofs, program, input, returned, output, stdout_buf>>

picol_cmd_set ==
    /\ Calls("picol_cmd_set")
    /\ IF argc # 3
       THEN picol_arrity_error /\ UNCHANGED callframes
       ELSE /\ callframes' = set_var(callframes, argv[2], argv[3])
            /\ result' = argv[3]
            /\ Returns("PicolOk")
    /\ UNCHANGED <<commands, panicked, stdout_failed, entry_frames, args_len, main_pc, eofs, program, input, returned, output, stdout_buf>>

picol_cmd_puts ==
    /\ Calls("picol_cmd_puts")
    /\ IF argc # 2
       THEN picol_arrity_error /\ UNCHANGED <<output, stdout_buf, panicked, stdout_failed>>
       ELSE LET pieces == <<as_bytes(argv[2]), as_bytes(<<"\n">>)>>
            IN  \/ /\ StdoutTakes(pieces)
                   /\ Returns("PicolOk")
                   /\ UNCHANGED <<result, panicked, stdout_failed>>
                \* println! panics when a write to stdout fails
                \/ /\ StdoutRefuses(pieces)
                   /\ UNCHANGED <<result, stack, ret>>
    /\ UNCHANGED <<commands, callframes, entry_frames, args_len, main_pc, eofs, program,
                   input, returned>>

picol_cmd_retcodes ==
    /\ Calls("picol_cmd_retcodes")
    /\ IF argc # 1
       THEN picol_arrity_error
       ELSE /\ Returns(IF argv[1] = S_break THEN "PicolBreak"
                       ELSE IF argv[1] = S_continue THEN "PicolContinue"
                       ELSE "PicolOk")
            /\ UNCHANGED result
    /\ UNCHANGED <<commands, callframes, panicked, stdout_failed, entry_frames, args_len, main_pc, eofs, program, input, returned, output, stdout_buf>>

picol_cmd_proc ==
    /\ Calls("picol_cmd_proc")
    /\ IF argc # 4
       THEN picol_arrity_error /\ UNCHANGED commands
       ELSE LET r == register_command(commands, argv[2], "picol_cmd_call_proc",
                                      <<argv[3], argv[4]>>)
            IN  /\ commands' = r.commands
                /\ result' = IF r.status = "PicolErr"
                             THEN MsgCommand \o argv[2] \o MsgAlreadyExists
                             ELSE result
                /\ Returns(r.status)
    /\ UNCHANGED <<callframes, panicked, stdout_failed, entry_frames, args_len, main_pc, eofs, program, input, returned, output, stdout_buf>>

picol_cmd_return ==
    /\ Calls("picol_cmd_return")
    /\ IF argc # 1 /\ argc # 2
       THEN picol_arrity_error
       ELSE /\ result' = IF argc = 2 THEN argv[2] ELSE <<>>
            /\ Returns("PicolReturn")
    /\ UNCHANGED <<commands, callframes, panicked, stdout_failed, entry_frames, args_len, main_pc, eofs, program, input, returned, output, stdout_buf>>

\* picol_cmd_if up to its first call of eval
picol_cmd_if ==
    /\ Calls("picol_cmd_if")
    /\ IF argc # 3 /\ argc # 5
       THEN picol_arrity_error
       ELSE CallsEval("if", "cond", argv[2])
    /\ UNCHANGED <<commands, callframes, panicked, stdout_failed, entry_frames, args_len, main_pc, eofs, program, input, returned, output, stdout_buf>>

\* picol_cmd_while up to its first call of eval
picol_cmd_while ==
    /\ Calls("picol_cmd_while")
    /\ IF argc # 3
       THEN picol_arrity_error
       ELSE CallsEval("while", "cond", argv[2])
    /\ UNCHANGED <<commands, callframes, panicked, stdout_failed, entry_frames, args_len, main_pc, eofs, program, input, returned, output, stdout_buf>>

\* picol_cmd_call_proc up to its call of eval
picol_cmd_call_proc ==
    /\ Calls("picol_cmd_call_proc")
    /\ LET pd == commands[Cmd].private_data
           args == split_whitespace(pd[1])
           pushed == <<PicolCallFrame_new>> \o callframes
       IN  IF Len(args) # argc - 1
           THEN /\ callframes' = pushed
                /\ result' = MsgWrongArgs \o argv[1]
                /\ Returns("PicolErr")
                /\ UNCHANGED entry_frames
           ELSE /\ callframes' = bind_args(pushed, args, argv, 1)
                /\ CallsEval("call_proc", "body", pd[2])
                /\ entry_frames' = Append(entry_frames, callframes)
    /\ UNCHANGED <<commands, panicked, stdout_failed, args_len, main_pc, eofs, program,
                   input, returned, output, stdout_buf>>

(***************************************************************************)
(* Returns of eval to the activation that called it                        *)
(***************************************************************************)
Returning == ~panicked /\ stack # <<>> /\ ret # "none"

\* eval going on after a status that is not an error
eval_propagates_errors_only(retcode) == retcode = "PicolErr"

\* the tests of lines 409 and 428: eval returns the status at once
eval_propagates(retcode) == retcode # "PicolOk"

\* line 408: the nested eval of a command substitution has returned
EvalCmdReturned ==
    /\ Returning /\ Top.kind = "eval" /\ Top.phase = "cmdsub"
    /\ IF eval_propagates(ret)
       THEN stack' = Pop /\ UNCHANGED <<ret, panicked>>
       ELSE /\ IF can_join(Top.argv, Top.prev_type)
               THEN /\ stack' = ReplaceTop([Top EXCEPT !.phase = "run", !.retcode = ret,
                                 !.argv = join_word(@, Top.prev_type, Top.token)])
                    /\ UNCHANGED panicked
               ELSE panicked' = TRUE /\ UNCHANGED stack
            /\ ret' = "none"
    /\ UNCHANGED <<commands, callframes, result, stdout_failed, entry_frames, args_len, main_pc, eofs, program, input, returned, output, stdout_buf, dispatched>>

\* line 427: the handler has returned
EvalHandlerReturned ==
    /\ Returning /\ Top.kind = "eval" /\ Top.phase = "dispatch"
    /\ IF eval_propagates(ret)
       THEN stack' = Pop /\ UNCHANGED ret
       ELSE /\ stack' = ReplaceTop([Top EXCEPT !.phase = "run", !.retcode = ret,
                                         !.argv = <<>>])
            /\ ret' = "none"
    /\ UNCHANGED <<commands, callframes, result, panicked, stdout_failed, entry_frames, args_len, main_pc, eofs, program, input, returned, output, stdout_buf,
                   dispatched>>

\* picol_cmd_if taking the branch at position 4 only after the word else
if_branch_checks_else(res, words) ==
    IF res = S_one THEN 2
    ELSE IF Len(words) = 5 /\ words[4] = <<"e", "l", "s", "e">> THEN 4
    ELSE 0

\* the index in argv of the word picol_cmd_if evaluates when the eval of its
\* condition has left the result res, 0 when it evaluates none
if_branch(res, words) ==
    IF res = S_one THEN 2
    ELSE IF Len(words) = 5 THEN 4
    ELSE 0

\* picol_cmd_if after the eval of the condition
IfCondReturned ==
    /\ Returning /\ Top.kind = "if" /\ Top.phase = "cond"
    /\ IF ret # "PicolOk"
       THEN stack' = Pop /\ UNCHANGED <<ret, result>>
       ELSE IF if_branch(result, Top.argv) # 0
       THEN /\ stack' = Append(ReplaceTop([Top EXCEPT !.phase = "branch"]),
                               EvalFrame(Top.argv[if_branch(result, Top.argv) + 1]))
            /\ result' = <<>>
            /\ ret' = "none"
       ELSE /\ stack' = Pop
            /\ ret' = "PicolOk"
            /\ UNCHANGED result
    /\ UNCHANGED <<commands, callframes, panicked, stdout_failed, entry_frames, args_len, main_pc, eofs, program, input, returned, output, stdout_buf, dispatched>>

\* picol_cmd_if returns what the eval of the branch returned
IfBranchReturned ==
    /\ Returning /\ Top.kind = "if" /\ Top.phase = "branch"
    /\ stack' = Pop
    /\ UNCHANGED <<commands, callframes, result, ret, panicked, stdout_failed, entry_frames, args_len, main_pc, eofs, program, input, returned,
                   output, stdout_buf, dispatched>>

\* picol_cmd_while returning PicolBreak to its caller
while_body_status_break(retcode) ==
    IF retcode = "PicolContinue" THEN "again"
    ELSE IF retcode = "PicolBreak" THEN "PicolBreak"
    ELSE IF retcode # "PicolOk" THEN "again"
    ELSE retcode

\* what picol_cmd_while does with the status retcode of the eval of its body:
\* "again" for the next iteration of its loop, or the status it returns
while_body_status(retcode) ==
    IF retcode = "PicolContinue" THEN "again"
    ELSE IF retcode = "PicolBreak" THEN "PicolOk"
    ELSE IF retcode # "PicolOk" THEN "again"
    ELSE retcode

\* picol_cmd_while after the eval of the condition
WhileCondReturned ==
    /\ Returning /\ Top.kind = "while" /\ Top.phase = "cond"
    /\ IF ret # "PicolOk"
       THEN stack' = Pop /\ UNCHANGED <<ret, result>>
       ELSE IF result # S_one
       THEN /\ stack' = Pop
            /\ ret' = "PicolOk"
            /\ UNCHANGED result
       ELSE /\ stack' = Append(ReplaceTop([Top EXCEPT !.phase = "body"]),
                               EvalFrame(Top.argv[3]))
            /\ result' = <<>>
            /\ ret' = "none"
    /\ UNCHANGED <<commands, callframes, panicked, stdout_failed, entry_frames, args_len, main_pc, eofs, program, input, returned, output, stdout_buf, dispatched>>

\* picol_cmd_while after the eval of the body
WhileBodyReturned ==
    /\ Returning /\ Top.kind = "while" /\ Top.phase = "body"
    /\ IF while_body_status(ret) = "again"
       THEN /\ stack' = Append(ReplaceTop([Top EXCEPT !.phase = "cond"]),
                               EvalFrame(Top.argv[2]))
            /\ result' = <<>>
            /\ ret' = "none"
       ELSE /\ stack' = Pop
            /\ ret' = while_body_status(ret)
            /\ UNCHANGED result
    /\ UNCHANGED <<commands, callframes, panicked, stdout_failed, entry_frames, args_len, main_pc, eofs, program, input, returned, output, stdout_buf, dispatched>>

\* picol_cmd_call_proc catching PicolBreak and PicolContinue too
call_proc_status_catches(retcode) ==
    IF retcode \in {"PicolReturn", "PicolBreak", "PicolContinue"}
    THEN "PicolOk" ELSE retcode

\* picol_cmd_call_proc returning every status of the body as it is
call_proc_status_unchanged(retcode) == retcode

\* the status picol_cmd_call_proc returns for the status of the eval of the body
call_proc_status(retcode) ==
    IF retcode = "PicolReturn" THEN "PicolOk" ELSE retcode

\* picol_cmd_call_proc after the eval of the body
CallProcReturned ==
    /\ Returning /\ Top.kind = "call_proc" /\ Top.phase = "body"
    /\ callframes' = drop_callframe(callframes)
    /\ stack' = Pop
    /\ ret' = call_proc_status(ret)
    /\ entry_frames' = SubSeq(entry_frames, 1, Len(entry_frames) - 1)
    /\ UNCHANGED <<commands, result, panicked, stdout_failed, args_len, main_pc, eofs,
                   program, input, returned, output, stdout_buf, dispatched>>

Next ==
    \/ MainArgs
    \/ MainPrompt
    \/ MainEval
    \/ MainEof
    \/ MainReadPanic
    \/ MainPrint
    \/ MainCleanup
    \/ EvalPanic
    \/ EvalEof
    \/ EvalVar
    \/ EvalCmd
    \/ EvalText
    \/ EvalSep
    \/ EvalEolEmpty
    \/ EvalUnknownCommand
    \/ picol_cmd_math
    \/ picol_cmd_set
    \/ picol_cmd_puts
    \/ picol_cmd_retcodes
    \/ picol_cmd_proc
    \/ picol_cmd_return
    \/ picol_cmd_if
    \/ picol_cmd_while
    \/ picol_cmd_call_proc
    \/ EvalCmdReturned
    \/ EvalHandlerReturned
    \/ IfCondReturned
    \/ IfBranchReturned
    \/ WhileCondReturned
    \/ WhileBodyReturned
    \/ CallProcReturned

Spec == Init /\ [][Next]_vars

(***************************************************************************)
(* Properties                                                              *)
(***************************************************************************)
\* main has passed every text of the program to eval, eval has returned and
\* main has read nothing since
Finished ==
    /\ ~panicked /\ input = <<>> /\ stack = <<>> /\ ret = "none"
    /\ eofs = 0 /\ program # <<>>

\* the evaluation of the program is over: every text was evaluated, or the
\* evaluation of a text aborted the process, stdout taking what is written
Ended == (panicked /\ stack # <<>> /\ ~stdout_failed) \/ Finished

\* the value bound to name in the current frame, <<>> when unbound
Bound(name) == get_var(callframes, name)

\* the activations of picol_cmd_call_proc in progress
CallProcs == {k \in DOMAIN stack : stack[k].kind = "call_proc"}

\* eval is about to call the handler of proc with the name of a registered command
DuplicateProc ==
    /\ AtDispatch /\ Cmd # 0
    /\ commands[Cmd].command_func = "picol_cmd_proc"
    /\ argc = 4
    /\ get_command(commands, argv[2]) # 0

\* C1: proc with a name that is already registered returns PicolErr and
\* leaves the registry as it was (no entry added, every entry keeps its
\* handler and its parameter and body texts); no two entries ever have the
\* same name, so the first definition is the one a later call runs: after
\* proc p {a} {set r 1}, a second proc p {a} {set r 2} returns PicolErr and
\* p 7 returns PicolOk with the result 1 of the first body; proc set {a}
\* {puts $a} returns PicolErr and set x 4 still sets x.
C1_DuplicateRejected ==
    /\ [][DuplicateProc => (commands' = commands /\ ret' = "PicolErr")]_vars
    /\ [](\A i, j \in DOMAIN commands :
            commands[i].name = commands[j].name => i = j)
    /\ []((program = ProgDup /\ Finished) =>
            returned = <<<<"PicolOk", <<>>>>,
                         <<"PicolErr", MsgCommand \o <<"p">> \o MsgAlreadyExists>>,
                         <<"PicolOk", <<"1">>>>>>)
    /\ []((program = ProgDupBuiltin /\ Finished) =>
            /\ returned = <<<<"PicolErr", MsgCommand \o S_set \o MsgAlreadyExists>>,
                            <<"PicolOk", <<"4">>>>>>
            /\ get_var(callframes, <<"x">>) = <<<<"4">>>>)

C1_Witness ==
    /\ program = ProgDup /\ Finished
    /\ returned[2][1] = "PicolErr"
    /\ returned[3] = <<"PicolOk", <<"1">>>>

\* eval has read a variable reference whose name the current frame does not bind
UnboundRef ==
    /\ GoodTok /\ Tok.typ = "PTVar"
    /\ token_of(Tok) \notin DOMAIN callframes[1].vars

\* C2: a $name reference is looked up in the current frame only: when the
\* current frame does not bind the name, whatever the frames of the callers
\* bind, eval returns PicolErr with the result "Unknown variable name".
C2_CurrentFrameOnly ==
    [][UnboundRef => /\ ret' = "PicolErr"
                     /\ result' = MsgUnknownVariable \o token_of(Tok)
                     /\ stack' = Pop]_vars

\* a procedure body has referred to x, which only the caller's frame binds,
\* and its eval has returned PicolErr
C2_Witness ==
    /\ ret = "PicolErr" /\ stack # <<>> /\ Top.kind = "call_proc"
    /\ Len(callframes) = 2
    /\ <<"x">> \in DOMAIN callframes[2].vars
    /\ <<"x">> \notin DOMAIN callframes[1].vars
    /\ result = MsgUnknownVariable \o <<"x">>

\* C3: the frames are those of the procedure calls in progress over the root
\* frame: a frame pushed by a call is popped when the call returns, whatever
\* its status, so the root frame is current whenever no call is in progress.
C3_FramesPaired == Len(callframes) = 1 + Cardinality(CallProcs)

\* the eval of the body of a while has returned the status st
WhileBodyDone(st) ==
    /\ Returning /\ Top.kind = "while" /\ Top.phase = "body"
    /\ ret = st

\* the eval of the condition of a while has returned
WhileCondDone == Returning /\ Top.kind = "while" /\ Top.phase = "cond"

\* the while goes on to its next iteration: it evaluates its condition again
WhileAgain ==
    /\ Len(stack') = Len(stack) + 1
    /\ stack'[Len(stack)] = [Top EXCEPT !.phase = "cond"]
    /\ stack'[Len(stack')] = EvalFrame(Top.argv[2])

\* C4: when the body of a while returns PicolOk, the while evaluates its
\* condition again (so the loop of set i 0 / while {< $i 3} {set i [+ $i 1]}
\* runs until the condition fails).
C4_WhileIterates == [][WhileBodyDone("PicolOk") => WhileAgain]_vars

\* C5: when the body of a while returns PicolErr or PicolReturn, or its
\* condition returns a status other than PicolOk, the while returns that
\* status at once.
C5_WhilePropagates ==
    [][(\/ WhileBodyDone("PicolErr")
        \/ WhileBodyDone("PicolReturn")
        \/ (WhileCondDone /\ ret # "PicolOk"))
       => (stack' = Pop /\ ret' = ret)]_vars

\* C6: when the body of a while returns PicolBreak, the while returns PicolOk
\* without evaluating its condition or its body again, and the eval that
\* dispatched the while goes on with the commands after it: in
\* while {== 1 1} {break; puts a}; set y 2 the commands dispatched are the
\* while, == 1 1, break and set y 2.
C6_BreakStopsLoop ==
    /\ [][WhileBodyDone("PicolBreak") => (stack' = Pop /\ ret' = "PicolOk")]_vars
    /\ []((program = ProgWhileBreak /\ Finished) =>
            /\ Len(dispatched) = 4
            /\ dispatched[3].argv = <<S_break>>
            /\ dispatched[4].argv = <<S_set, <<"y">>, <<"2">>>>
            /\ returned = <<<<"PicolOk", <<"2">>>>>>)

C6_Witness ==
    /\ program = ProgWhileBreak /\ Finished
    /\ Bound(<<"y">>) = <<<<"2">>>>
    /\ dispatched[3].argv = <<S_break>>

\* a handler, or the nested eval of a command substitution, has returned a
\* status other than PicolOk to eval
EvalGotStatus ==
    /\ Returning /\ Top.kind = "eval" /\ Top.phase \in {"cmdsub", "dispatch"}
    /\ ret # "PicolOk"

\* C7: a status other than PicolOk returned to eval by a handler or by the
\* nested eval of a command substitution ends that eval at once: it returns
\* the same status, and dispatches nothing more.  So set x [break]; set y 2
\* returns PicolBreak having dispatched break alone, and of foo 1; set y 2
\* and / 4 0; set y 2 only the first commands are dispatched, both returning
\* PicolErr, y being unbound until a later set y 3.
C7_EvalAborts ==
    /\ [][EvalGotStatus => /\ stack' = Pop
                           /\ ret' = ret
                           /\ dispatched' = dispatched
                           /\ result' = result
                           /\ callframes' = callframes]_vars
    /\ []((program = ProgSubBreak /\ Finished) =>
            /\ returned = <<<<"PicolBreak", <<>>>>>>
            /\ Len(dispatched) = 1)
    /\ []((program = ProgAbort /\ Finished) =>
            /\ returned = <<<<"PicolErr", MsgUnknownCommand \o <<"f", "o", "o">>>>,
                            <<"PicolErr", MsgDivisionByZero>>,
                            <<"PicolOk", <<"3">>>>>>
            /\ Len(dispatched) = 3
            /\ Bound(<<"y">>) = <<<<"3">>>>)

\* set x [break]; set y 2 has returned PicolBreak after dispatching break alone
C7_Witness ==
    /\ program = ProgSubBreak /\ Finished
    /\ returned = <<<<"PicolBreak", <<>>>>>>
    /\ Len(dispatched) = 1
    /\ dispatched[1].argv = <<S_break>>

\* the nested eval of a command substitution has returned PicolOk
CmdSubDone ==
    /\ Returning /\ Top.kind = "eval" /\ Top.phase = "cmdsub"
    /\ ret = "PicolOk"

\* C8: the text a command substitution contributes to the word list is the
\* result left by its nested eval.
C8_SubstitutesResult ==
    [][CmdSubDone => /\ Len(stack') = Len(stack)
                     /\ stack'[Len(stack)].argv =
                            join_word(Top.argv, Top.prev_type, result)]_vars

\* C9: set a foo; puts bar$a dispatches puts with the single argument barfoo.
C9_WordJoin ==
    (program = ProgNaiveJoin /\ Ended) =>
        /\ Finished
        /\ \E k \in DOMAIN dispatched :
              dispatched[k].argv = <<S_puts, <<"b", "a", "r", "f", "o", "o">>>>

\* C10: set x 5; set y $x returns PicolOk with the result 5 and leaves y
\* bound to 5 in the current frame.
C10_SetThenGet ==
    (program = ProgNaiveSet /\ Ended) =>
        /\ Finished
        /\ returned = <<<<"PicolOk", <<"5">>>>>>
        /\ Bound(<<"y">>) = <<<<"5">>>>

\* C11: a text made of whitespace, terminators and comments only evaluates to
\* PicolOk with an empty result, whatever its length: eval returns (it does
\* not abort) and dispatches no command.
C11_BlankScripts ==
    (program \in BlankPrograms /\ Ended) =>
        /\ Finished
        /\ returned = <<<<"PicolOk", <<>>>>>>
        /\ dispatched = <<>>

\* C12: a command whose first word is not the name of a registered command
\* returns PicolErr with the result "Unknown command " followed by the whole
\* word as the script writes it: foo 1 2, and foo alone, return PicolErr with
\* "Unknown command foo".
C12_UnknownCommand ==
    (program \in {ProgNaiveUnknown, ProgNaiveWord} /\ Ended) =>
        /\ Finished
        /\ returned = <<<<"PicolErr", MsgUnknownCommand \o <<"f", "o", "o">>>>>>

\* the eval of the body of a procedure has returned to picol_cmd_call_proc
ProcBodyDone == Returning /\ Top.kind = "call_proc" /\ Top.phase = "body"

\* eval is about to call the handler of return with zero or one argument
ReturnCalled ==
    /\ AtDispatch /\ Cmd # 0
    /\ commands[Cmd].command_func = "picol_cmd_return"
    /\ argc \in {1, 2}

\* C13: return leaves PicolReturn with its argument (or the empty text) as
\* result; a procedure call turns PicolReturn of its body into PicolOk and
\* keeps the result, and returns every other status of the body unchanged.
\* So f 5, with the body return $a; puts b, returns PicolOk with 5 and puts b
\* is not dispatched; and procedures whose bodies are return, break,
\* continue, foo and set v 1 return PicolOk with the empty text, PicolBreak,
\* PicolContinue, PicolErr and PicolOk with 1.
C13_ReturnBecomesOk ==
    /\ [][ReturnCalled => /\ ret' = "PicolReturn"
                          /\ result' = (IF argc = 2 THEN argv[2] ELSE <<>>)]_vars
    /\ [][ProcBodyDone => /\ stack' = Pop
                          /\ result' = result
                          /\ ret' = (IF ret = "PicolReturn" THEN "PicolOk" ELSE ret)]_vars
    /\ []((program = ProgReturn /\ Len(returned) >= 2) =>
            /\ returned[2] = <<"PicolOk", <<"5">>>>
            /\ \A k \in DOMAIN dispatched :
                  dispatched[k].argv # <<S_puts, <<"b">>>>)
    /\ []((program = ProgProcReturn /\ Finished) =>
            returned = <<<<"PicolOk", <<>>>>,
                         <<"PicolOk", <<>>>>,
                         <<"PicolBreak", <<>>>>>>)
    /\ []((program = ProgProcStatus /\ Finished) =>
            returned = <<<<"PicolOk", <<>>>>,
                         <<"PicolContinue", <<>>>>,
                         <<"PicolErr", MsgUnknownCommand \o <<"f", "o", "o">>>>,
                         <<"PicolOk", <<"1">>>>>>)

\* f 5 has returned PicolOk with the value given to return in its body
C13_Witness ==
    /\ program = ProgReturn /\ Len(returned) = 2
    /\ returned[2] = <<"PicolOk", <<"5">>>>
    /\ dispatched[Len(dispatched)].argv = <<S_return, <<"5">>>>

\* eval is about to call the handler of an arithmetic command with two operands
MathCalled ==
    /\ AtDispatch /\ Cmd # 0
    /\ commands[Cmd].command_func = "picol_cmd_math"
    /\ argc = 3

\* the command is / with two integer operands, the second being 0
DivByZeroCalled ==
    /\ MathCalled /\ argv[1] = S_div
    /\ parse_i32(argv[2]).ok /\ parse_i32(argv[3]).ok
    /\ parse_i32(argv[3]).val = 0

\* C14: / with two integer operands, the second being 0, returns PicolErr
\* with the result "Division by zero"; the process does not abort and no
\* variable of any frame changes.  So after set v 1, each of / 4 0, / 0 0
\* and / -3 -0 returns PicolErr with that message and v is still 1.
C14_DivisionByZero ==
    /\ [][DivByZeroCalled => /\ ret' = "PicolErr"
                             /\ result' = MsgDivisionByZero
                             /\ callframes' = callframes
                             /\ panicked' = FALSE]_vars
    /\ []((program = ProgDivZero /\ Finished) =>
            /\ returned = <<<<"PicolOk", <<"1">>>>,
                            <<"PicolErr", MsgDivisionByZero>>,
                            <<"PicolErr", MsgDivisionByZero>>,
                            <<"PicolErr", MsgDivisionByZero>>>>
            /\ Bound(<<"v">>) = <<<<"1">>>>)

\* / -3 -0 has returned PicolErr with the message, v being bound
C14_Witness ==
    /\ program = ProgDivZero /\ Finished
    /\ Len(returned) = 4
    /\ returned[4] = <<"PicolErr", MsgDivisionByZero>>
    /\ dispatched[4].argv = <<S_div, <<"-", "3">>, <<"-", "0">>>>
    /\ Bound(<<"v">>) = <<<<"1">>>>

\* no while is in progress
NoWhile == \A k \in DOMAIN stack : stack[k].kind # "while"

\* PicolBreak or PicolContinue is being returned, no while being in progress
LooseStatus == ret \in {"PicolBreak", "PicolContinue"} /\ NoWhile /\ ~panicked

\* C15: with no while in progress, PicolBreak and PicolContinue are caught by
\* nothing: every eval, if and procedure call they are returned to returns
\* them unchanged, up to main, which records them as the status of the text.
\* So break, continue, if {== 1 1} {break} and if {== 1 2} {puts a} else
\* {continue} return PicolBreak, PicolContinue, PicolBreak and PicolContinue;
\* with proc p {} {if {== 1 1} {break}}, set x [p]; set y 2 returns PicolBreak
\* and binds neither x nor y, and set x [continue] returns PicolContinue.
C15_LooseBreakContinue ==
    /\ [][(LooseStatus /\ stack # <<>>) => (stack' = Pop /\ ret' = ret)]_vars
    /\ [][(LooseStatus /\ stack = <<>>) =>
            returned' = Append(returned, <<ret, result>>)]_vars
    /\ []((program = ProgLoose /\ Finished) =>
            returned = <<<<"PicolBreak", <<>>>>,
                         <<"PicolContinue", <<>>>>,
                         <<"PicolBreak", <<>>>>,
                         <<"PicolContinue", <<>>>>>>)
    /\ []((program = ProgLooseProc /\ Finished) =>
            /\ returned = <<<<"PicolBreak", <<>>>>, <<"PicolContinue", <<>>>>>>
            /\ callframes = <<PicolCallFrame_new>>)

\* PicolBreak is returned by a procedure call made in a command substitution,
\* having come out of the branch of an if of the body
C15_Witness ==
    /\ program = ProgLooseProc /\ Len(returned) = 0
    /\ LooseStatus /\ ret = "PicolBreak"
    /\ Len(stack) = 2
    /\ stack[2].kind = "eval" /\ stack[2].phase = "dispatch"
    /\ stack[1].kind = "eval" /\ stack[1].phase = "cmdsub"
    /\ dispatched[Len(dispatched)].argv = <<S_break>>

\* eval is about to call the handler of if with 3 or 5 words
IfCalled ==
    /\ AtDispatch /\ Cmd # 0
    /\ commands[Cmd].command_func = "picol_cmd_if"
    /\ argc \in {3, 5}

\* the eval of the condition of an if has returned PicolOk
IfCondDone ==
    /\ Returning /\ Top.kind = "if" /\ Top.phase = "cond"
    /\ ret = "PicolOk"

\* the eval of a branch of an if has returned
IfBranchDone == Returning /\ Top.kind = "if" /\ Top.phase = "branch"

\* the if goes on to evaluate text as its branch
IfEvaluates(text) ==
    /\ Len(stack') = Len(stack) + 1
    /\ stack'[Len(stack)] = [Top EXCEPT !.phase = "branch"]
    /\ stack'[Len(stack')] = EvalFrame(text)

IsPuts(d) == d.argv[1] = S_puts

\* the commands puts dispatched so far
PutsCalls == SelectSeq(dispatched, IsPuts)

\* C16: if evaluates its condition first.  When the condition has left the
\* result "1" it evaluates the word at position 2; otherwise, with 3 words it
\* evaluates nothing and returns PicolOk leaving the result of the condition,
\* and with 5 words it evaluates the word at position 4 whatever the word at
\* position 3 is.  It returns the status of the branch it evaluated, and
\* evaluates no second branch.
C16_IfBranches ==
    /\ [][IfCalled => /\ Len(stack') = Len(stack) + 2
                      /\ stack'[Len(stack')] = EvalFrame(argv[2])
                      /\ stack'[Len(stack) + 1].kind = "if"
                      /\ stack'[Len(stack) + 1].phase = "cond"]_vars
    /\ [][IfCondDone =>
            IF result = S_one THEN IfEvaluates(Top.argv[3])
            ELSE IF Len(Top.argv) = 3
            THEN stack' = Pop /\ ret' = "PicolOk" /\ result' = result
            ELSE IfEvaluates(Top.argv[5])]_vars
    /\ [][IfBranchDone => (stack' = Pop /\ ret' = ret /\ result' = result)]_vars
    /\ []((program = ProgIf /\ Finished) =>
            /\ returned = <<<<"PicolOk", <<>>>>, <<"PicolOk", <<>>>>,
                            <<"PicolOk", <<"0">>>>>>
            /\ PutsCalls = <<[argv |-> <<S_puts, <<"a">>>>, found |-> TRUE],
                             [argv |-> <<S_puts, <<"b">>>>, found |-> TRUE]>>)
    /\ []((program = ProgIfForms /\ Finished) =>
            /\ returned = <<<<"PicolOk", <<>>>>, <<"PicolOk", <<"2">>>>,
                            <<"PicolBreak", <<>>>>>>
            /\ PutsCalls = <<[argv |-> <<S_puts, <<"b">>>>, found |-> TRUE]>>)

\* an if of 5 words whose word at position 3 is foo has evaluated the word
\* at position 4, an if whose condition left 2 has evaluated nothing
C16_Witness ==
    /\ program = ProgIfForms /\ Finished
    /\ PutsCalls = <<[argv |-> <<S_puts, <<"b">>>>, found |-> TRUE]>>
    /\ returned[2] = <<"PicolOk", <<"2">>>>
    /\ dispatched[1].argv[4] = <<"f", "o", "o">>

\* the arithmetic command has an operand that is not the text of an integer
BadOperandCalled ==
    /\ MathCalled
    /\ ~parse_i32(argv[2]).ok \/ ~parse_i32(argv[3]).ok

\* C17: an arithmetic or comparison command with an operand that is not the
\* text of an integer returns PicolErr and the process does not abort: after
\* < 1 b has returned PicolErr, set y 3 returns PicolOk with 3.
C17_BadOperandRecoverable ==
    /\ [][BadOperandCalled => (panicked' = FALSE /\ ret' = "PicolErr")]_vars
    /\ []((program = ProgBadOperand /\ Ended) =>
            /\ Finished
            /\ returned[1][1] = "PicolErr"
            /\ returned[2] = <<"PicolOk", <<"3">>>>)

\* C18: a newline or ";" outside quotes, braces and brackets ends the command,
\* whatever whitespace stands before or after it: in each of the four texts
\* of set x 1 and set y 2 separated by a newline or ";" with a space or CR
\* before or after it, the two commands are dispatched one after the other,
\* each with its three words, and the text returns PicolOk with 2.
C18_TerminatorEndsCommand ==
    program \in TerminatorPrograms =>
        /\ \A k \in DOMAIN dispatched : Len(dispatched[k].argv) = 3
        /\ Len(returned) >= 1 => returned[1] = <<"PicolOk", <<"2">>>>
        /\ Ended => (Finished /\ Len(dispatched) = 2)

\* eval is about to call get_token with input remaining, and the call returns
TokenCalled == AtEval /\ Top.p.len > 0 /\ ~Tok.panicked

\* C19: a call of get_token made while input remains consumes at least one
\* character and leaves the cursor within the text; after a Separator token
\* the cursor is not at a space, tab or CR, and after an EndOfCommand token it
\* is not at whitespace, a newline or ";" (the whole run was consumed).  The
\* cursor then reaches the end of any text after finitely many calls.
C19_LexerProgress ==
    TokenCalled =>
        /\ Tok.pos > Top.p.pos
        /\ Tok.pos <= Len(Tok.string)
        /\ (Tok.typ = "PTSep" /\ HasChar(Tok)) => chars_nth(Tok) \notin {" ", "\t", "\r"}
        /\ (Tok.typ = "PTEol" /\ HasChar(Tok)) => chars_nth(Tok) \notin EolChars

\* eval is about to call get_token with no input remaining
TokenCalledAtEnd == AtEval /\ Top.p.len = 0

\* C20: with no input remaining get_token yields EndOfCommand when the last
\* token was neither EndOfCommand nor EndOfInput, and EndOfInput otherwise;
\* so the last command of a text that ends without newline or ";" is
\* dispatched once with all its words: puts hi dispatches puts with the
\* word hi, once, and returns PicolOk.
C20_LastCommand ==
    /\ TokenCalledAtEnd =>
          Tok.typ = (IF Top.p.typ \notin {"PTEol", "PTEof"} THEN "PTEol" ELSE "PTEof")
    /\ (program = ProgLast /\ Ended) =>
          /\ Finished
          /\ dispatched = <<[argv |-> <<S_puts, <<"h", "e", "l", "l", "o">>>>,
                             found |-> TRUE]>>
    /\ (program = ProgNaiveLast /\ Ended) =>
          /\ Finished
          /\ dispatched = <<[argv |-> <<S_puts, <<"h", "i">>>>, found |-> TRUE]>>
          /\ returned = <<<<"PicolOk", <<>>>>>>

\* the characters between the outer braces of the text of a program of
\* BracePrograms
BraceContent == SubSeq(program[1], 2, Len(program[1]) - 1)

\* C21: a brace-quoted word is one word whose text is exactly the characters
\* between the outer braces, nested braces kept, "$" and "[" left as they
\* are, the empty content included: a text made of one brace-quoted word
\* dispatches that content as its single word (and, no command having such
\* a name, returns PicolErr) after consuming the closing brace.
C21_BraceWord ==
    (program \in BracePrograms /\ Ended) =>
        /\ Finished
        /\ dispatched = <<[argv |-> <<BraceContent>>, found |-> FALSE]>>
        /\ returned = <<<<"PicolErr", MsgUnknownCommand \o BraceContent>>>>

\* eval is about to call a procedure with as many arguments as it has parameters
ProcCalledRight ==
    /\ AtDispatch /\ Cmd # 0
    /\ commands[Cmd].command_func = "picol_cmd_call_proc"
    /\ Len(split_whitespace(commands[Cmd].private_data[1])) = argc - 1

\* eval is about to call the handler of set with two arguments
SetCalled ==
    /\ AtDispatch /\ Cmd # 0
    /\ commands[Cmd].command_func = "picol_cmd_set"
    /\ argc = 3

\* the k-th frame of the chain counted from the outermost one
FrameFromRoot(frames, k) == frames[Len(frames) - k + 1]

\* the frames under the current one are in the next state what they are now
CallersUnchanged ==
    \A k \in 1..(Len(callframes) - 1) :
        /\ Len(callframes') >= k
        /\ FrameFromRoot(callframes', k) = FrameFromRoot(callframes, k)

\* the chain of frames in which the call whose body is returning was made
FramesAtCall == entry_frames[Len(entry_frames)]

\* C22: a procedure called with the number of arguments it requires gets a
\* new frame over the caller's, binding its parameters and nothing else; set
\* writes in the current frame only; when the body returns, the frames are
\* again the frames the call was made in, the caller's frame current with
\* the bindings it had; and no step changes a frame under the current one.
\* So after set x 1; proc q {x} {set x 9; set t 2}; q 5 the root frame binds
\* x to 1 and does not bind t; with proc h {a} {if {== $a 1} {set t 7} else
\* {puts $t}}, h 2 made after h 1 finds t unbound; and after set x 1;
\* proc q {a} {set r 1}; proc p {b} {q}; p 5 the root frame is current and
\* binds x to 1 only, so that set y $b finds b unbound.
C22_CallKeepsCallerFrame ==
    /\ [][ProcCalledRight =>
            LET params == split_whitespace(commands[Cmd].private_data[1]) IN
            /\ Tail(callframes') = callframes
            /\ DOMAIN callframes'[1].vars = {params[i] : i \in 1..Len(params)}
            /\ \A i \in 1..Len(params) :
                  (\A j \in (i + 1)..Len(params) : params[j] # params[i])
                      => callframes'[1].vars[params[i]] = argv[i + 1]]_vars
    /\ [][SetCalled =>
            /\ Tail(callframes') = Tail(callframes)
            /\ DOMAIN callframes'[1].vars = DOMAIN callframes[1].vars \cup {argv[2]}
            /\ \A n \in DOMAIN callframes'[1].vars :
                  callframes'[1].vars[n] =
                      (IF n = argv[2] THEN argv[3] ELSE callframes[1].vars[n])]_vars
    /\ [][ProcBodyDone => callframes' = FramesAtCall]_vars
    /\ [][CallersUnchanged]_vars
    /\ []((program = ProgFrameLocal /\ Finished) =>
            /\ returned = <<<<"PicolOk", <<"2">>>>,
                            <<"PicolErr", MsgUnknownVariable \o <<"t">>>>>>
            /\ callframes = <<[vars |-> [n \in {<<"x">>} |-> <<"1">>]]>>)
    /\ []((program = ProgFrameFresh /\ Finished) =>
            /\ returned = <<<<"PicolOk", <<"7">>>>,
                            <<"PicolErr", MsgUnknownVariable \o <<"t">>>>>>
            /\ callframes = <<PicolCallFrame_new>>)
    /\ []((program = ProgFrameLeak /\ Finished) =>
            /\ returned = <<<<"PicolErr", MsgWrongArgs \o <<"q">>>>,
                            <<"PicolErr", MsgUnknownVariable \o <<"b">>>>>>
            /\ callframes = <<[vars |-> [n \in {<<"x">>} |-> <<"1">>]]>>)

\* the operands of the arithmetic command about to be called
OperandA == parse_i32(argv[2]).val

OperandB == parse_i32(argv[3]).val

\* the command is / with two integer operands, the second not being 0
DivCalled ==
    /\ MathCalled /\ argv[1] = S_div
    /\ parse_i32(argv[2]).ok /\ parse_i32(argv[3]).ok
    /\ OperandB # 0

\* the command is a comparison with two integer operands
CompareCalled ==
    /\ MathCalled /\ argv[1] \in {S_gt, S_lt, S_ge, S_le, S_eq, S_ne}
    /\ parse_i32(argv[2]).ok /\ parse_i32(argv[3]).ok

\* the quotient of a by b truncated toward zero, for a and b in the i32
\* range, b # 0, and a quotient in that range; written so that no
\* intermediate value leaves the range (2^31 \div m is (2^31 - m) \div m + 1)
Quotient(a, b) ==
    IF b = 1 THEN a
    ELSE IF b = I32Min THEN (IF a = I32Min THEN 1 ELSE 0)
    ELSE IF a = I32Min
    THEN IF b > 0 THEN -((Abs32(a + b) \div b) + 1)
         ELSE (Abs32(a - b) \div (-b)) + 1
    ELSE IF (a < 0) = (b < 0) THEN Abs32(a) \div Abs32(b)
    ELSE -(Abs32(a) \div Abs32(b))

\* the decimal text of an integer of the i32 range
DecimalText(n) ==
    IF n = I32Min
    THEN <<"-", "2", "1", "4", "7", "4", "8", "3", "6", "4", "8">>
    ELSE IF n < 0 THEN <<"-">> \o nat_to_string(-n)
    ELSE nat_to_string(n)

\* the decimal text of the quotient of a by b truncated toward zero, for
\* a and b in the i32 range with b # 0
QuotientText(a, b) ==
    IF a = I32Min /\ b = -1
    THEN <<"2", "1", "4", "7", "4", "8", "3", "6", "4", "8">>
    ELSE DecimalText(Quotient(a, b))

\* C23: for operands a and b in the i32 range with b not 0, / returns PicolOk
\* with the decimal text of the quotient truncated toward zero, and a
\* comparison returns PicolOk with "1" or "0"; the process aborts for no
\* such operands.  So / 7 2 gives 3, / -7 2 gives -3, / 7 -2 gives -3 and
\* / -7 -2 gives 3, and / -2147483648 -1 returns too.
C23_DivideAndCompare ==
    /\ [][DivCalled => /\ panicked' = FALSE
                       /\ ret' = "PicolOk"
                       /\ result' = QuotientText(OperandA, OperandB)]_vars
    /\ [][CompareCalled => /\ panicked' = FALSE
                           /\ ret' = "PicolOk"
                           /\ result' \in {<<"1">>, <<"0">>}]_vars
    /\ []((program = ProgDivide /\ Ended) =>
            /\ Finished
            /\ returned = <<<<"PicolOk", <<"3">>>>, <<"PicolOk", <<"-", "3">>>>,
                            <<"PicolOk", <<"-", "3">>>>, <<"PicolOk", <<"3">>>>,
                            <<"PicolOk", DecimalText(-1073741824)>>,
                            <<"PicolOk", DecimalText(-2147483647)>>,
                            <<"PicolOk", <<"0">>>>>>)
    /\ []((program = ProgDivOverflow /\ Ended) => Finished)
    /\ []((program = ProgCompare /\ Ended) =>
            /\ Finished
            /\ returned = <<<<"PicolOk", <<"1">>>>, <<"PicolOk", <<"0">>>>,
                            <<"PicolOk", <<"1">>>>, <<"PicolOk", <<"0">>>>,
                            <<"PicolOk", <<"1">>>>, <<"PicolOk", <<"0">>>>,
                            <<"PicolOk", <<"1">>>>, <<"PicolOk", <<"0">>>>>>)

====
